---- MODULE Spec2Model ----
(***************************************************************************)
(* A model of the fido aggregation engine (src/fido.go, src/field.go):     *)
(* the path registry, the value coercion, the priority rule, the lazy      *)
(* materialization of map entries and the fetch / publish pipeline.        *)
(*                                                                         *)
(* The destination record of the fetch runs is                             *)
(*     struct { Foo string            `fido:"foo"`                         *)
(*              M   map[string]string `fido:"m"`                           *)
(*              MM  map[string]map[string]string `fido:"mm"`               *)
(*              N   int8              `fido:"n"` }                         *)
(* and is held as one slot per leaf, named by the Go field names leading   *)
(* to it.  Other record shapes are hydrated in the construction runs, and  *)
(* slices, arrays and the unsigned and 16-bit integers are coerced in the  *)
(* coercion runs.  Destinations of 8 and 16 bits stand for the integer     *)
(* widths: numbers of more than nine digits are kept as digit strings and  *)
(* compared with the 64-bit limits digit by digit.                         *)
(* A Go map is a reference; the code never stores one map object at two    *)
(* places nor replaces a stored map object, so a map is identified with    *)
(* the location that holds it (a struct field name followed by map keys).  *)
(***************************************************************************)
EXTENDS Integers, Sequences, FiniteSets, TLC

VARIABLES
    scen,         \* the inputs of this run: providers, paths and values drawn from
    options,      \* Fido.options
    providers,    \* Fido.providers: the priority table, 0 = not in the map
    watching,     \* Fido.watching: the providers that have a watch worker
    fields,       \* Fido.fields: the registry, canonical key -> Field
    cfg,          \* the destination record
    subscribers,  \* Fido.subscribers: number of channels handed out
    inbox,        \* per subscriber channel, the Notifications received
    main,         \* the caller's thread: position inside FetchWithContext
    rnd,          \* per thread, the fetch round in flight (locals of fetch)
    signal,       \* per watched provider, a change signal is pending on ch
    nrounds,      \* number of fetch rounds started so far
    since,        \* history: per subscriber, the rounds started before it subscribed
    addOrder,     \* history: providers in the order they were first passed to Add
    accepted,     \* history: per registry key, the provider of the last accepted write
    last,         \* history: the most recent callback invocation and its outcome
    cancelled,    \* ctx.Done() is closed
    wk,           \* per provider: its watch worker, its change channel, workers started
    shut,         \* Close: how far it got, the providers it stopped, channels closed
    wlog,         \* history: per round run by a watch worker, the error fetch returned
    co            \* the coercion runs: the slot and the input of a setValue call

vars == <<scen, options, providers, watching, fields, cfg, subscribers, inbox,
          main, rnd, signal, nrounds, since, addOrder, accepted, last,
          cancelled, wk, shut, wlog, co>>

-----------------------------------------------------------------------------
(* Bounds of the model *)

MaxRounds == 2

MaxPairs == 2

-----------------------------------------------------------------------------
(* Providers, threads, values *)

Nil == "nil"

MainThread == "main"

Worker(p) == "w_" \o p

\* an interface{} value handed to the callback: dynamic type and payload
StrV(x) == [t |-> "string", s |-> x, i |-> 0]

IntV(n) == [t |-> "int", s |-> "", i |-> n]

Flt == [t |-> "float64", s |-> "", i |-> 0]

\* an integer of a named Go type: int8, uint16, ...
TypedInt(t, n) == [t |-> t, s |-> "", i |-> n]

BoolV(b) == [t |-> "bool", s |-> "", i |-> IF b THEN 1 ELSE 0]

\* a []interface{} holding the elements es
SliceV(es) == [t |-> "[]interface {}", s |-> "", i |-> 0, e |-> es]

\* the type switches of field.go: case int, int8, int16, int32, int64 and
\* case uint, uint8, uint16, uint32, uint64
SignedTypes == {"int", "int8", "int16", "int32", "int64"}

UnsignedTypes == {"uint", "uint8", "uint16", "uint32", "uint64"}

\* the dynamic value of a map-typed slot (never equal to any input drawn here)
MapIface == [t |-> "map", s |-> "", i |-> 0]

NoErr == "nil"

ErrFieldNotFound == "ErrFieldNotFound"

ErrExpectedMap == "ErrExpectedMap"

ErrInvalidMapKeyType == "ErrInvalidMapKeyType"

ErrReflectValueNotAddressable == "ErrReflectValueNotAddressable"

ErrInvalidPath == "ErrInvalidPath"

ErrSetInvalidType == "ErrSetInvalidType"

ErrSetInvalidValue == "ErrSetInvalidValue"

ErrSetOverflow == "ErrSetOverflow"

ErrReflectValueNotSetable == "ErrReflectValueNotSetable"

ErrStructTagNotFound == "ErrStructTagNotFound"

ErrProvider == "ErrProvider"

ErrDestinationTypeInvalid == "ErrDestinationTypeInvalid"

ErrDestinationNil == "ErrDestinationNil"

ErrDestinationNotPtr == "ErrDestinationNotPtr"

\* ctx.Err() of a cancelled context
ErrCanceled == "context canceled"

\* the error a provider's Notify or Close returns
ErrNotify == "ErrNotify"

ErrClose == "ErrClose"

\* fmt.Errorf("%w: recovered from panic", r): the message, and the chain
\* errors.Is walks (one level here)
Wrap(e) == e \o ": recovered from panic"

Is(err, target) == err = target \/ err = Wrap(target)

\* NonErrPanic{Value: v}
NonErrPanic(v) == "NonErrPanic{" \o v \o "}"

\* *runtime.PanicNilError, what recover() returns for panic(nil) when the
\* module's go directive is 1.21 or later
PanicNilError == "panic called with nil argument"

\* what the provider's Values panics with: an error, a value that is not
\* an error, nil
NoPanic == [kind |-> "none", v |-> ""]

PanicValues ==
    { [kind |-> "error", v |-> "boom"],
      [kind |-> "value", v |-> "foo"],
      [kind |-> "nil",   v |-> ""] }

\* the error fetch returns after recover() in its deferred function.  For
\* panic(nil) recover() returns nil under the go directive of this
\* repository's time (the branch is skipped and err stays nil) and a
\* *runtime.PanicNilError under 1.21 and later.
Recovered(pv) ==
    CASE pv.kind = "error" -> {Wrap(pv.v)}
      [] pv.kind = "value" -> {Wrap(NonErrPanic(pv.v))}
      [] pv.kind = "nil"   -> {NoErr, Wrap(PanicNilError)}

-----------------------------------------------------------------------------
(* Types and destination values *)

TString == [kind |-> "string"]

TMap(k, e) == [kind |-> "map", key |-> k, elem |-> e]

\* intN and uintN: the kind and the width in bits
TInt(w) == [kind |-> "int", bits |-> w]

TUint(w) == [kind |-> "uint", bits |-> w]

TBool == [kind |-> "bool"]

TSlice(e) == [kind |-> "slice", elem |-> e]

TArray(n, e) == [kind |-> "array", len |-> n, elem |-> e]

NilMap == [nil |-> TRUE, m |-> <<>>]

EmptyMap == [nil |-> FALSE, m |-> <<>>]

\* reflect.New(t).Elem(): the zero value of a type
RECURSIVE Zero(_)
Zero(t) ==
    CASE t.kind = "string" -> ""
      [] t.kind \in {"int", "uint"} -> 0
      [] t.kind = "bool" -> FALSE
      [] t.kind = "slice" -> <<>>
      [] t.kind = "array" -> [i \in 1..t.len |-> Zero(t.elem)]
      [] OTHER -> NilMap

\* reflect.Type.String() of the integer types
TypeName(t) == (IF t.kind = "uint" THEN "uint" ELSE "int") \o ToString(t.bits)

TStruct(fs) == [kind |-> "struct", fields |-> fs]

\* a struct field: its Go name, its struct tag and its type
SField(name, tag, typ) == [name |-> name, tag |-> tag, typ |-> typ]

\* reflect.StructTag.Lookup(key): the key is there, with its value given
\* as strings.Split(value, ",") leaves it; or the key is not there
Tagged(comps) == [ok |-> TRUE, comps |-> comps]

Untagged == [ok |-> FALSE, comps |-> <<>>]

\* the destination record of the fetch runs
DestStruct ==
    TStruct(<< SField("Foo", Tagged(<<"foo">>), TString),
               SField("M",   Tagged(<<"m">>),   TMap("string", TString)),
               SField("MM",  Tagged(<<"mm">>),  TMap("string", TMap("string", TString))),
               SField("N",   Tagged(<<"n">>),   TInt(8)) >>)

Last(s) == s[Len(s)]

\* reflect.Value.SetMapIndex on a (non-nil) map value
SetMapIndex(mv, k, v) ==
    [nil |-> FALSE,
     m   |-> [x \in (DOMAIN mv.m) \cup {k} |-> IF x = k THEN v ELSE mv.m[x]]]

\* the value held at a location: a struct field, then map keys
RECURSIVE ReadIn(_, _)
ReadIn(v, keys) ==
    IF Len(keys) = 0 THEN v ELSE ReadIn(v.m[keys[1]], Tail(keys))

ReadLoc(c, loc) == ReadIn(c[loc[1]], Tail(loc))

RECURSIVE WriteIn(_, _, _)
WriteIn(v, keys, new) ==
    IF Len(keys) = 0 THEN new
    ELSE SetMapIndex(v, keys[1], WriteIn(v.m[keys[1]], Tail(keys), new))

WriteLoc(c, loc, new) ==
    [c EXCEPT ![loc[1]] = WriteIn(c[loc[1]], Tail(loc), new)]

-----------------------------------------------------------------------------
(* Path and the registry (src/field.go) *)

RECURSIVE key(_)
key(p) ==
    IF Len(p) = 0 THEN ""
    ELSE IF Len(p) = 1 THEN p[1]
    ELSE p[1] \o "." \o key(Tail(p))

equal(p, other) ==
    /\ Len(p) = Len(other)
    /\ \A i \in 1..Len(p) : p[i] = other[i]

set(fs, path, field) ==
    [k \in (DOMAIN fs) \cup {key(path)} |-> IF k = key(path) THEN field ELSE fs[k]]

RECURSIVE get(_, _)
get(fs, path) ==
    IF key(path) \in DOMAIN fs THEN [ok |-> TRUE, key |-> key(path)]
    ELSE IF Len(path) = 0 THEN [ok |-> FALSE, key |-> ""]
    ELSE IF Len(path) = 1 THEN [ok |-> FALSE, key |-> ""]
    ELSE get(fs, SubSeq(path, 1, Len(path) - 1))

\* &field{path, value}: value references the struct field named loc
NewField(path, loc, typ) ==
    [path |-> path, typ |-> typ, provider |-> Nil, ismap |-> FALSE,
     loc |-> loc, idx |-> "", slot |-> ""]

\* &mapfield{field: &field{path, value: fresh slot}, dst, idx}
NewMapField(path, typ, dst, idx) ==
    [path |-> path, typ |-> typ, provider |-> Nil, ismap |-> TRUE,
     loc |-> dst, idx |-> idx, slot |-> Zero(typ)]

\* Field.Value(): the struct field, or the map field's own slot
Value(c, fld) == IF fld.ismap THEN fld.slot ELSE ReadLoc(c, fld.loc)

\* reflect.Value.Interface() as a dynamically typed value
Interface(v, typ) ==
    IF typ.kind = "string" THEN StrV(v)
    ELSE IF typ.kind \in {"int", "uint"} THEN TypedInt(TypeName(typ), v)
    ELSE MapIface

\* LookupTag: the name is the tag value's first comma-separated component
LookupTag(f) ==
    IF ~f.tag.ok THEN [err |-> ErrStructTagNotFound, Name |-> ""]
    ELSE [err |-> NoErr, Name |-> f.tag.comps[1]]

\* the slots of a value of type typ: one per leaf, named by the Go field
\* names leading to it
RECURSIVE Leaves(_, _)
Leaves(names, typ) ==
    IF typ.kind # "struct" THEN {[loc |-> key(names), typ |-> typ]}
    ELSE UNION {Leaves(Append(names, typ.fields[i].name), typ.fields[i].typ) :
                   i \in 1..Len(typ.fields)}

\* the zero value of a struct type
ZeroValue(typ) ==
    LET L == Leaves(<<>>, typ)
    IN  [k \in {l.loc : l \in L} |-> Zero((CHOOSE l \in L : l.loc = k).typ)]

RECURSIVE hydrate(_, _, _, _, _)

\* a field loop that ends at the first field without the tag
RECURSIVE hydrateFieldsBreak(_, _, _, _, _, _)
hydrateFieldsBreak(fs, opt, p, names, flds, i) ==
    IF i > Len(flds) THEN [err |-> NoErr, fields |-> fs]
    ELSE LET tag == LookupTag(flds[i])
         IN  IF tag.err # NoErr
             THEN [err |-> IF opt.ErrorOnMissingTag THEN tag.err ELSE NoErr, fields |-> fs]
             ELSE LET r == hydrate(fs, opt, Append(p, tag.Name),
                                   Append(names, flds[i].name), flds[i].typ)
                  IN  IF r.err # NoErr THEN r
                      ELSE hydrateFieldsBreak(r.fields, opt, p, names, flds, i + 1)

\* the loop of hydrate over the fields of a struct, from field i on: a
\* field without the tag is an error or is passed over; the others are
\* hydrated under the path extended by their tag name
RECURSIVE hydrateFields(_, _, _, _, _, _)
hydrateFields(fs, opt, p, names, flds, i) ==
    IF i > Len(flds) THEN [err |-> NoErr, fields |-> fs]
    ELSE LET tag == LookupTag(flds[i])
         IN  IF tag.err # NoErr
             THEN IF opt.ErrorOnMissingTag THEN [err |-> tag.err, fields |-> fs]
                  ELSE hydrateFields(fs, opt, p, names, flds, i + 1)
             ELSE LET r == hydrate(fs, opt, Append(p, tag.Name),
                                   Append(names, flds[i].name), flds[i].typ)
                  IN  IF r.err # NoErr THEN r
                      ELSE hydrateFields(r.fields, opt, p, names, flds, i + 1)

\* hydrate below the root: a value that is not a struct is registered as a
\* Field at p; a struct is walked.  fs is f.fields, which set changes in
\* place, so what was registered before an error stays registered.  (No
\* path here is longer than three segments; append(p, tag.Name) copies p
\* up to that length.)
hydrate(fs, opt, p, names, typ) ==
    IF typ.kind # "struct"
    THEN [err |-> NoErr, fields |-> set(fs, p, NewField(p, <<key(names)>>, typ))]
    ELSE hydrateFields(fs, opt, p, names, typ.fields, 1)

-----------------------------------------------------------------------------
(* Value coercion (src/field.go) *)

\* a destination slot as a reflect.Value: its type, what it holds, CanSet()
Slot(typ, val, canSet) == [typ |-> typ, val |-> val, canSet |-> canSet]

\* what a setValue call leaves behind: the error returned, the slot's
\* contents afterwards, and the value a panic was raised with ("" = none)
Done(err, val) == [err |-> err, val |-> val, panic |-> ""]

\* the characters of the texts the providers supply
Chars(str) ==
    CASE str = ""      -> <<>>
      [] str = "a"     -> <<"a">>
      [] str = "b"     -> <<"b">>
      [] str = "5"     -> <<"5">>
      [] str = "+5"    -> <<"+", "5">>
      [] str = "-5"    -> <<"-", "5">>
      [] str = "-"     -> <<"-">>
      [] str = "12a"   -> <<"1", "2", "a">>
      [] str = "007"   -> <<"0", "0", "7">>
      [] str = "127"   -> <<"1", "2", "7">>
      [] str = "128"   -> <<"1", "2", "8">>
      [] str = "-128"  -> <<"-", "1", "2", "8">>
      [] str = "-129"  -> <<"-", "1", "2", "9">>
      [] str = "255"   -> <<"2", "5", "5">>
      [] str = "256"   -> <<"2", "5", "6">>
      [] str = "5000000000" -> <<"5", "0", "0", "0", "0", "0", "0", "0", "0", "0">>
      [] str = "9223372036854775807" ->
            <<"9", "2", "2", "3", "3", "7", "2", "0", "3", "6",
              "8", "5", "4", "7", "7", "5", "8", "0", "7">>
      [] str = "9223372036854775808" ->
            <<"9", "2", "2", "3", "3", "7", "2", "0", "3", "6",
              "8", "5", "4", "7", "7", "5", "8", "0", "8">>
      [] str = "-9223372036854775809" ->
            <<"-", "9", "2", "2", "3", "3", "7", "2", "0", "3", "6",
              "8", "5", "4", "7", "7", "5", "8", "0", "9">>
      [] str = "18446744073709551616" ->
            <<"1", "8", "4", "4", "6", "7", "4", "4", "0", "7",
              "3", "7", "0", "9", "5", "5", "1", "6", "1", "6">>

DigitChars == {"0", "1", "2", "3", "4", "5", "6", "7", "8", "9"}

Digit(c) ==
    CASE c = "0" -> 0 [] c = "1" -> 1 [] c = "2" -> 2 [] c = "3" -> 3
      [] c = "4" -> 4 [] c = "5" -> 5 [] c = "6" -> 6 [] c = "7" -> 7
      [] c = "8" -> 8 [] c = "9" -> 9

RECURSIVE StripZeros(_)
StripZeros(ds) ==
    IF Len(ds) > 0 /\ ds[1] = 0 THEN StripZeros(Tail(ds)) ELSE ds

\* a <= b for digit strings of the same length
RECURSIVE LexLeq(_, _)
LexLeq(a, b) ==
    IF Len(a) = 0 THEN TRUE
    ELSE IF a[1] # b[1] THEN a[1] < b[1]
    ELSE LexLeq(Tail(a), Tail(b))

\* a <= b for numbers given by their digits without leading zeros
DigitsLeq(a, b) == Len(a) < Len(b) \/ (Len(a) = Len(b) /\ LexLeq(a, b))

RECURSIVE Horner(_, _)
Horner(acc, ds) ==
    IF Len(ds) = 0 THEN acc ELSE Horner(10 * acc + ds[1], Tail(ds))

\* 1<<63 - 1, 1<<63 and 1<<64 - 1 in digits
MaxInt64 == <<9, 2, 2, 3, 3, 7, 2, 0, 3, 6, 8, 5, 4, 7, 7, 5, 8, 0, 7>>

MinInt64Magnitude == <<9, 2, 2, 3, 3, 7, 2, 0, 3, 6, 8, 5, 4, 7, 7, 5, 8, 0, 8>>

MaxUint64 == <<1, 8, 4, 4, 6, 7, 4, 4, 0, 7, 3, 7, 0, 9, 5, 5, 1, 6, 1, 5>>

\* a parsed number: ok = err == nil; a magnitude of more than nine digits
\* is kept as big (it exceeds every destination width modelled), a smaller
\* one as its value v
Parsed(ok, big, v) == [ok |-> ok, big |-> big, v |-> v]

\* the number with the digits ds, accepted up to limit
inRange(ds, limit, sign) ==
    IF ~DigitsLeq(ds, limit) THEN Parsed(FALSE, FALSE, 0)
    ELSE IF Len(ds) > 9 THEN Parsed(TRUE, TRUE, 0)
    ELSE Parsed(TRUE, FALSE, sign * Horner(0, ds))

\* the digits of cs as a number no larger than limit
parseDigits(cs, limit, sign) ==
    IF Len(cs) = 0 \/ \E i \in 1..Len(cs) : cs[i] \notin DigitChars
    THEN Parsed(FALSE, FALSE, 0)
    ELSE inRange(StripZeros([i \in 1..Len(cs) |-> Digit(cs[i])]), limit, sign)

\* strconv.ParseInt(s, 10, 64): an optional sign, then digits; a syntax
\* error or a value outside int64 is an error
ParseInt(cs) ==
    IF Len(cs) = 0 THEN Parsed(FALSE, FALSE, 0)
    ELSE parseDigits(IF cs[1] \in {"+", "-"} THEN Tail(cs) ELSE cs,
                     IF cs[1] = "-" THEN MinInt64Magnitude ELSE MaxInt64,
                     IF cs[1] = "-" THEN 0 - 1 ELSE 1)

\* strconv.ParseUint(s, 10, 64): digits only
ParseUint(cs) == parseDigits(cs, MaxUint64, 1)

\* an overflow test that lets every value through
OverflowIntNever(w, n) == FALSE

\* reflect.Value.OverflowInt / OverflowUint for a destination of w bits
OverflowInt(w, n) == n.big \/ n.v < 0 - 2^(w - 1) \/ n.v > 2^(w - 1) - 1

OverflowUint(w, n) == n.big \/ n.v > 2^w - 1

\* setValueToString: text, a boolean, or an integer formatted base-10; the
\* other inputs drawn here (float64, slices) have no String method
setValueToString(dst, to) ==
    IF ~dst.canSet THEN Done(ErrReflectValueNotSetable, dst.val)
    ELSE IF to.t = "string" THEN Done(NoErr, to.s)
    ELSE IF to.t = "bool" THEN Done(NoErr, IF to.i = 1 THEN "true" ELSE "false")
    ELSE IF to.t \in SignedTypes \cup UnsignedTypes THEN Done(NoErr, ToString(to.i))
    ELSE Done(ErrSetInvalidType, dst.val)

\* the number an integer destination is to take: the text as parsed, or
\* the integer handed in
number(to, parsed) ==
    IF to.t = "string" THEN parsed ELSE Parsed(TRUE, FALSE, to.i)

\* the body of setValueToInt and setValueToUint after the CanSet check:
\* n is the input as a number, types the integer types of the type switch,
\* over the overflow test of the destination
setInteger(dst, to, types, n, over) ==
    IF to.t # "string" /\ to.t \notin types THEN Done(ErrSetInvalidType, dst.val)
    ELSE IF ~n.ok THEN Done(ErrSetInvalidValue, dst.val)
    ELSE IF over THEN Done(ErrSetOverflow, dst.val)
    ELSE Done(NoErr, n.v)

\* setValueToInt: text parsed base-10 or a signed integer, checked against
\* the destination's width
setValueToInt(dst, to) ==
    IF ~dst.canSet THEN Done(ErrReflectValueNotSetable, dst.val)
    ELSE setInteger(dst, to, SignedTypes, number(to, ParseInt(Chars(to.s))),
                    OverflowInt(dst.typ.bits, number(to, ParseInt(Chars(to.s)))))

\* setValueToUint: the same with unsigned parsing and unsigned inputs
setValueToUint(dst, to) ==
    IF ~dst.canSet THEN Done(ErrReflectValueNotSetable, dst.val)
    ELSE setInteger(dst, to, UnsignedTypes, number(to, ParseUint(Chars(to.s))),
                    OverflowUint(dst.typ.bits, number(to, ParseUint(Chars(to.s)))))

\* reflect.ValueOf(to).Kind() is Array or Slice
IsSequence(to) == "e" \in DOMAIN to

RECURSIVE setValue(_, _)

\* one turn of the loop of setValueToSlice: r is what setValue left in the
\* fresh slot for element i, built the slice so far
RECURSIVE coerceElements(_, _, _, _)
nextElement(elem, es, i, slice, r) ==
    IF r.err # NoErr \/ r.panic # "" THEN [r EXCEPT !.val = slice]
    ELSE coerceElements(elem, es, i + 1, [slice EXCEPT ![i] = r.val])

\* the loop of setValueToSlice: element i of the input is coerced into a
\* fresh slot of the element type and stored in slice; the first error ends
\* the loop
coerceElements(elem, es, i, slice) ==
    IF i > Len(es) THEN Done(NoErr, slice)
    ELSE nextElement(elem, es, i, slice, setValue(Slot(elem, Zero(elem), TRUE), es[i]))

\* dst.Set(slice): a []T is assignable to a slice destination; for an
\* array destination reflect panics
assign(dst, r) ==
    IF r.err # NoErr \/ r.panic # "" THEN [r EXCEPT !.val = dst.val]
    ELSE IF dst.typ.kind = "array"
        THEN [err |-> NoErr, val |-> dst.val, panic |-> "reflect.Set"]
    ELSE r

\* setValueToSlice: a new slice of the destination's element type is built
\* from the input and assigned
setValueToSlice(dst, to) ==
    IF ~dst.canSet THEN Done(ErrReflectValueNotSetable, dst.val)
    ELSE IF ~IsSequence(to) THEN Done(ErrSetInvalidType, dst.val)
    ELSE assign(dst, coerceElements(dst.typ.elem, to.e, 1,
                                    [i \in 1..Len(to.e) |-> Zero(dst.typ.elem)]))

\* setValue: dispatch on the destination kind; a map, a bool or a struct
\* hits the default
setValue(dst, to) ==
    CASE dst.typ.kind = "string" -> setValueToString(dst, to)
      [] dst.typ.kind = "int"    -> setValueToInt(dst, to)
      [] dst.typ.kind = "uint"   -> setValueToUint(dst, to)
      [] dst.typ.kind \in {"slice", "array"} -> setValueToSlice(dst, to)
      [] OTHER -> Done(ErrSetInvalidType, dst.val)

\* no setValue call of its own is pending (the fetch runs)
NoCoercion == [pc |-> "none"]

\* field.Set with the owner recorded before the coercion result is looked at
SetOwnerFirst(c, fld, to, p) ==
    [err |-> setValue(Slot(fld.typ, Value(c, fld), TRUE), to).err,
     cfg |-> IF fld.ismap THEN c
             ELSE WriteLoc(c, fld.loc, setValue(Slot(fld.typ, Value(c, fld), TRUE), to).val),
     field |-> [fld EXCEPT !.provider = p,
                           !.slot = IF fld.ismap
                                    THEN setValue(Slot(fld.typ, Value(c, fld), TRUE), to).val
                                    ELSE @]]

\* the rest of field.Set once setValue has left r: the slot holds r.val,
\* and the provider is recorded when no error came back
stored(c, fld, p, r) ==
    [err |-> r.err,
     cfg |-> IF fld.ismap THEN c ELSE WriteLoc(c, fld.loc, r.val),
     field |-> [fld EXCEPT !.provider = IF r.err = NoErr THEN p ELSE @,
                           !.slot = IF fld.ismap THEN r.val ELSE @]]

\* field.Set: coerce into the slot (f.value), then record the provider
fieldSet(c, fld, to, p) ==
    stored(c, fld, p, setValue(Slot(fld.typ, Value(c, fld), TRUE), to))

\* f.dst.SetMapIndex(f.idx, f.value)
indexed(fld, r) ==
    [r EXCEPT !.cfg = WriteLoc(@, fld.loc,
                               SetMapIndex(ReadLoc(@, fld.loc), fld.idx, r.field.slot))]

\* a mapfield.Set that indexes the destination map whatever field.Set
\* returned
indexedAlways(fld, r) == IF ~fld.ismap THEN r ELSE indexed(fld, r)

\* mapfield.Set after field.Set returned r: the error is handed on, or the
\* destination map is indexed with the slot's value; a plain field has
\* only field.Set
indexedOnSuccess(fld, r) == IF r.err # NoErr \/ ~fld.ismap THEN r ELSE indexed(fld, r)

\* Field.Set: field.Set, and for a mapfield the index write into dst
Set(c, fld, to, p) == indexedOnSuccess(fld, fieldSet(c, fld, to, p))

-----------------------------------------------------------------------------
(* Map materialization (src/fido.go) *)

\* initMap: val is the map held by the reflect.Value, canAddr its
\* addressability. Returns the error, the map as left behind (it is mutated
\* in place), and the keys leading from it to the map that is returned.
RECURSIVE initMap(_, _, _, _)
initMap(path, val, typ, canAddr) ==
    IF typ.kind # "map" THEN [err |-> ErrExpectedMap, val |-> val, ret |-> <<>>, typ |-> typ]
    ELSE IF val.nil /\ typ.key # "string"
        THEN [err |-> ErrInvalidMapKeyType, val |-> val, ret |-> <<>>, typ |-> typ]
    ELSE IF val.nil /\ ~canAddr
        THEN [err |-> ErrReflectValueNotAddressable, val |-> val, ret |-> <<>>, typ |-> typ]
    ELSE
      LET v1 == IF val.nil THEN EmptyMap ELSE val IN
      IF typ.elem.kind = "map" THEN
          IF Len(path) <= 1 THEN [err |-> ErrInvalidPath, val |-> v1, ret |-> <<>>, typ |-> typ]
          ELSE
            LET parent   == path[1]
                children == Tail(path)
                found    == parent \in DOMAIN v1.m
                m        == IF found THEN v1.m[parent] ELSE Zero(typ.elem)
                r        == initMap(children, m, typ.elem, ~found)
            IN  IF r.err # NoErr THEN [err |-> r.err, val |-> v1, ret |-> <<>>, typ |-> typ]
                ELSE [err |-> NoErr, val |-> SetMapIndex(v1, parent, r.val),
                      ret |-> <<parent>> \o r.ret, typ |-> r.typ]
      ELSE [err |-> NoErr, val |-> v1, ret |-> <<>>, typ |-> typ]

\* mp := path[len(fld.Path())-1:]
mapPath(path, fld) == SubSeq(path, Len(fld.path), Len(path))

\* an initMapField whose mapfield carries the path of the Field it was
\* made from
registeredAsAncestor(fs, c, path, fld, mp, r) ==
    IF r.err # NoErr
    THEN [err |-> r.err, fields |-> fs, cfg |-> WriteLoc(c, fld.loc, r.val)]
    ELSE [err |-> NoErr, cfg |-> WriteLoc(c, fld.loc, r.val),
          fields |-> set(fs, path,
                         NewMapField(fld.path, r.typ.elem, fld.loc \o r.ret, Last(mp)))]

\* initMapField after initMap returned r for the map path mp: the error is
\* handed on (the map may have been allocated by then), or a mapfield is
\* registered at the requested path
registered(fs, c, path, fld, mp, r) ==
    IF r.err # NoErr
    THEN [err |-> r.err, fields |-> fs, cfg |-> WriteLoc(c, fld.loc, r.val)]
    ELSE [err |-> NoErr, cfg |-> WriteLoc(c, fld.loc, r.val),
          fields |-> set(fs, path,
                         NewMapField(path, r.typ.elem, fld.loc \o r.ret, Last(mp)))]

\* initMapField: materialize, then register a mapfield at the requested path
initMapField(fs, c, path, fld) ==
    registered(fs, c, path, fld, mapPath(path, fld),
               initMap(mapPath(path, fld), ReadLoc(c, fld.loc), fld.typ, TRUE))

-----------------------------------------------------------------------------
(* The priority table.  The providers type is not part of the sources at   *)
(* hand; add and priority follow the specification's section 4.4.          *)

Known(tbl) == {p \in DOMAIN tbl : tbl[p] # 0}

\* providers.add: idempotent, rank = current count + 1 on first sight
RECURSIVE add(_, _)
add(tbl, ps) ==
    IF Len(ps) = 0 THEN tbl
    ELSE add(IF tbl[ps[1]] # 0 THEN tbl
             ELSE [tbl EXCEPT ![ps[1]] = Cardinality(Known(tbl)) + 1],
             Tail(ps))

\* providers.priority: 0 if never added
priority(tbl, p) == IF p \in DOMAIN tbl THEN tbl[p] ELSE 0

\* f.providers[x]: indexing the table's map, the zero value for a missing key
index(tbl, x) == IF x \in DOMAIN tbl THEN tbl[x] ELSE 0

-----------------------------------------------------------------------------
(* The resolution callback (src/fido.go) *)

\* the comparison with the operands swapped
overriddenReversed(tbl, opt, owner, provider) ==
    /\ owner # Nil
    /\ opt.EnforcePriority
    /\ index(tbl, owner) < index(tbl, provider)

\* the comparison made non-strict
overriddenOrEqual(tbl, opt, owner, provider) ==
    /\ owner # Nil
    /\ opt.EnforcePriority
    /\ index(tbl, owner) >= index(tbl, provider)

\* field.Provider() != nil && EnforcePriority && providers[owner] > providers[provider]
overridden(tbl, opt, owner, provider) ==
    /\ owner # Nil
    /\ opt.EnforcePriority
    /\ index(tbl, owner) > index(tbl, provider)

\* a comparison that never suppresses a write
changedAlways(value, current) == TRUE

\* a comparison of the payloads alone, blind to the dynamic type
changedPayload(value, current) == value.i # current.i \/ value.s # current.s

\* value != current, on interface values: dynamic type and payload
changed(value, current) == value # current

\* a callback that never reports a missing Field
notFoundSilent(opt) == NoErr

\* no Field and no ancestor: ErrFieldNotFound when ErrorOnFieldNotFound is
\* set, nil otherwise
notFound(opt) == IF opt.ErrorOnFieldNotFound THEN ErrFieldNotFound ELSE NoErr

\* what one callback invocation leaves: the registry, the destination, the
\* error returned, the update sent, and what happened on the way (the
\* Field resolved, its value and owner before, materializations done)
Result(fs, c, err, ups, outcome, k, prev, owner) ==
    [fields |-> fs, cfg |-> c, err |-> err, updates |-> ups, outcome |-> outcome,
     key |-> k, prev |-> prev, owner |-> owner, nmat |-> 0]

RECURSIVE callback(_, _, _, _, _, _, _)

\* after field.Set returned r: the error wrapped and returned, or the
\* FieldUpdate sent on updates
afterSet(fs, provider, path, value, k, fld, current, r) ==
    IF r.err # NoErr
    THEN Result([fs EXCEPT ![k] = r.field], r.cfg, r.err, <<>>, "seterr",
                k, current, fld.provider)
    ELSE Result([fs EXCEPT ![k] = r.field], r.cfg, NoErr,
                << [Path |-> path, New |-> value, Old |-> current,
                    Provider |-> provider] >>,
                "accepted", k, current, fld.provider)

\* the write to the Field fld found at key k, whose value is current
write(fs, c, tbl, opt, provider, path, value, k, fld, current) ==
    IF ~changed(value, current)
    THEN Result(fs, c, NoErr, <<>>, "noop", k, current, fld.provider)
    ELSE IF overridden(tbl, opt, fld.provider, provider)
    THEN Result(fs, c, NoErr, <<>>, "dropped", k, current, fld.provider)
    ELSE afterSet(fs, provider, path, value, k, fld, current,
                  Set(c, fld, value, provider))

\* after initMapField returned r: its error is returned, or the loop goes
\* round again (continue) with the registry as initMapField left it
retry(tbl, opt, provider, path, value, k, fld, r) ==
    IF r.err # NoErr
    THEN Result(r.fields, r.cfg, r.err, <<>>, "materr", k, MapIface, fld.provider)
    ELSE [callback(r.fields, r.cfg, tbl, opt, provider, path, value)
             EXCEPT !.nmat = @ + 1]

\* the loop body once f.fields.get(path) returned g
resolved(fs, c, tbl, opt, provider, path, value, g) ==
    IF ~g.ok THEN
        Result(fs, c, notFound(opt), <<>>, "notfound", "", MapIface, Nil)
    ELSE IF ~equal(fs[g.key].path, path) /\ fs[g.key].typ.kind = "map" THEN
        retry(tbl, opt, provider, path, value, g.key, fs[g.key],
              initMapField(fs, c, path, fs[g.key]))
    ELSE
        write(fs, c, tbl, opt, provider, path, value, g.key, fs[g.key],
              Interface(Value(c, fs[g.key]), fs[g.key].typ))

\* the function callback returns, applied to one (path, value) pair
callback(fs, c, tbl, opt, provider, path, value) ==
    resolved(fs, c, tbl, opt, provider, path, value, get(fs, path))

-----------------------------------------------------------------------------
(* Fido: construction, Add, Subscribe *)

DefaultOptions ==
    [AutoWatch |-> TRUE, AutoUpdate |-> TRUE, EnforcePriority |-> TRUE,
     ErrorOnMissingTag |-> TRUE, ErrorOnFieldNotFound |-> FALSE]

IdleRound ==
    [pc |-> "idle", id |-> 0, provider |-> Nil, calls |-> 0, updates |-> <<>>,
     applied |-> <<>>, err |-> NoErr, panic |-> NoPanic, note |-> <<>>,
     pubN |-> 0, pubIdx |-> 0, updatesCh |-> "none", collector |-> "none",
     pending |-> <<>>]

\* the caller's thread between two calls
MainIdle ==
    [pc |-> "idle", todo |-> {}, ret |-> NoErr, op |-> "none", obs |-> FALSE,
     pre |-> FALSE, made |-> FALSE, args |-> <<>>, ran |-> <<>>]

\* the caller's thread when the call op hands back e
Returning(m, e) == [m EXCEPT !.pc = "return", !.todo = {}, !.ret = e]

\* no worker, no change channel yet
NoWorker == [st |-> "none", ch |-> "none", started |-> 0]

ShutOpen == [pc |-> "open", stopped |-> {}, chans |-> "open"]

NoCall ==
    [provider |-> Nil, path |-> <<>>, value |-> MapIface, outcome |-> "none",
     err |-> NoErr, key |-> "", owner |-> Nil, prev |-> MapIface, nupd |-> 0,
     mat |-> FALSE, same |-> FALSE, nmat |-> 0]

Threads == {MainThread} \cup {Worker(p) : p \in scen.notify}

\* reflect.ValueOf(dst) for the destinations handed to New: nil, a struct
\* and a string passed by value, nil pointers, pointers to a string, to a
\* map and to a pointer, a pointer to the destination struct
Dst(valid, kind, isnil, elem) ==
    [valid |-> valid, kind |-> kind, nil |-> isnil, elem |-> elem,
     typ |-> DestStruct]

\* reflect.ValueOf(&v) for a v of the struct type typ
PtrTo(typ) == [Dst(TRUE, "ptr", FALSE, "struct") EXCEPT !.typ = typ]

ValidDst == PtrTo(DestStruct)

Destinations ==
    { Dst(FALSE, "invalid", FALSE, "invalid"),
      Dst(TRUE, "struct", FALSE, "none"),
      Dst(TRUE, "string", FALSE, "none"),
      Dst(TRUE, "ptr", TRUE, "struct"),
      Dst(TRUE, "ptr", TRUE, "string"),
      Dst(TRUE, "ptr", FALSE, "string"),
      Dst(TRUE, "ptr", FALSE, "map"),
      Dst(TRUE, "ptr", FALSE, "ptr"),
      ValidDst }

\* a hydrate without the nil check: Elem() of a nil pointer is the zero
\* Value, whose Kind is not Struct
hydrateRootNoNilCheck(v) ==
    IF ~v.valid THEN ErrDestinationTypeInvalid
    ELSE IF v.kind # "ptr" THEN ErrDestinationNotPtr
    ELSE IF v.nil \/ v.elem # "struct" THEN ErrDestinationTypeInvalid
    ELSE NoErr

\* hydrate with the empty path: the checks on the root value
hydrateRoot(v) ==
    IF ~v.valid THEN ErrDestinationTypeInvalid
    ELSE IF v.kind # "ptr" THEN ErrDestinationNotPtr
    ELSE IF v.kind = "ptr" /\ v.nil THEN ErrDestinationNil
    ELSE IF v.elem # "struct" THEN ErrDestinationTypeInvalid
    ELSE NoErr

\* New: the options applied to the defaults, then
\* return f, f.hydrate([]string{}, reflect.ValueOf(dst))
New(v, opt) ==
    LET e == hydrateRoot(v)
        r == IF e # NoErr THEN [err |-> e, fields |-> <<>>]
             ELSE hydrate(<<>>, opt, <<>>, <<>>, v.typ)
    IN  [err |-> r.err, fields |-> r.fields, options |-> opt, typ |-> v.typ]

\* the caller right after New returned n
Constructed(n) == Returning([MainIdle EXCEPT !.op = "new"], n.err)

\* the state New leaves: options applied, the registry built by hydrate,
\* nothing fetched yet; m is where the caller's thread stands, c the
\* setValue call of a coercion run
InitState(sc, n, m, c) ==
    /\ scen = sc
    /\ options = n.options
    /\ providers = [p \in sc.providers |-> 0]
    /\ watching = {}
    /\ fields = n.fields
    /\ cfg = ZeroValue(n.typ)
    /\ subscribers = 0
    /\ inbox = <<>>
    /\ main = m
    /\ rnd = [t \in {MainThread} \cup {Worker(p) : p \in sc.notify} |-> IdleRound]
    /\ signal = [p \in sc.notify |-> FALSE]
    /\ nrounds = 0
    /\ since = <<>>
    /\ addOrder = <<>>
    /\ accepted = [k \in DOMAIN n.fields |-> Nil]
    /\ last = NoCall
    /\ cancelled = FALSE
    /\ wk = [p \in sc.providers |-> NoWorker]
    /\ shut = ShutOpen
    /\ wlog = <<>>
    /\ co = c

InitFrom(sc, n, m) == InitState(sc, n, m, NoCoercion)

\* New(&cfg) has returned nil and the caller goes on
InitWith(sc) == \E o \in sc.options : InitFrom(sc, New(ValidDst, o), MainIdle)

\* the arguments of one Add call / one Fetch call
AddLists == {<<p>> : p \in scen.providers}
              \cup {<<p, q>> : p \in scen.providers, q \in scen.providers}

FetchLists == {<<>>} \cup {<<p>> : p \in scen.providers}

RECURSIVE FirstSeen(_, _)
FirstSeen(order, ps) ==
    IF Len(ps) = 0 THEN order
    ELSE FirstSeen(IF \E i \in 1..Len(order) : order[i] = ps[1] THEN order
                   ELSE Append(order, ps[1]), Tail(ps))

\* an Add that registers only its first argument
AddFirstOnly(tbl, ps) == IF Len(ps) = 0 THEN tbl ELSE add(tbl, <<ps[1]>>)

\* Fido.Add: f.providers.add(providers...)
Add(tbl, ps) == add(tbl, ps)

\* the caller adds providers (the caller's thread is not inside a Fetch)
DoAdd(ps) ==
    /\ main.pc = "idle"
    /\ providers' = Add(providers, ps)
    /\ addOrder' = FirstSeen(addOrder, ps)
    /\ addOrder' # addOrder
    /\ UNCHANGED <<cancelled, wk, shut, wlog, co, scen, options, watching, fields, cfg, subscribers, inbox, main,
                   rnd, signal, nrounds, since, accepted, last>>

\* Subscribe: a new unbuffered channel appended to f.subscribers
Subscribe ==
    /\ main.pc = "idle"
    /\ subscribers < scen.subs
    /\ subscribers' = subscribers + 1
    /\ inbox' = Append(inbox, <<>>)
    /\ since' = Append(since, nrounds)
    /\ UNCHANGED <<cancelled, wk, shut, wlog, co, scen, options, providers, watching, fields, cfg, main, rnd,
                   signal, nrounds, addOrder, accepted, last>>

-----------------------------------------------------------------------------
(* fetch: one round *)

\* the locals of fetch when provider.Values is about to be called
\* fetch up to the call of provider.Values: updatesCh is made and the
\* collector goroutine started
StartRound(p) ==
    [IdleRound EXCEPT !.pc = "values", !.id = nrounds + 1, !.provider = p,
                      !.updatesCh = "open", !.collector = "running"]

\* a panic in provider.Values unwinds fetch to its deferred function:
\* close(updatesCh) and <-doneCh are not executed
unwound(r) == r

\* close(updatesCh); <-doneCh: the collector's range ends, it closes doneCh
\* and fetch goes on
drained(r) == [r EXCEPT !.updatesCh = "closed", !.collector = "done"]

\* a collector that puts every update first
collectFront(updates, ups) == ups \o updates

\* the collector goroutine: updates = append(updates, update)
collect(updates, ups) == updates \o ups

\* a provider that never looks at the context
producesAlways(p, c) == TRUE

\* a provider that checks ctx.Done() before each item it produces (the
\* inmemory provider, WalkMap) stops once the context is cancelled
mayProduce(p, c) == p \in scen.behaved => ~c

\* a provider that goes on after the callback returned an error
goesOn(err) == "values"

\* if err := callback(path, v); err != nil { return err }: the provider's
\* Values returns the first error of the callback (inmemory, WalkMap)
stopsAt(err) == IF err # NoErr THEN "tail" ELSE "values"

\* the callback has run for the pair and left r
Returned(t, p, path, value, r) ==
    /\ fields' = r.fields
    /\ cfg' = r.cfg
    /\ rnd' = [rnd EXCEPT
           ![t].calls = @ + 1,
           ![t].updates = collect(@, r.updates),
           ![t].applied = IF r.outcome = "accepted"
                          THEN Append(@, [Path |-> path, New |-> value,
                                          Old |-> r.prev, Provider |-> p])
                          ELSE @,
           ![t].err = r.err,
           ![t].pending = <<>>,
           ![t].pc = stopsAt(r.err)]
    /\ accepted' = [k \in DOMAIN r.fields |->
                      IF k = r.key /\ r.outcome = "accepted" THEN p
                      ELSE IF k \in DOMAIN accepted THEN accepted[k] ELSE Nil]
    /\ last' = [provider |-> p, path |-> path, value |-> value,
                outcome |-> r.outcome, err |-> r.err, key |-> r.key,
                owner |-> r.owner, prev |-> r.prev, nupd |-> Len(r.updates),
                mat |-> (DOMAIN r.fields # DOMAIN fields),
                same |-> (r.fields = fields /\ r.cfg = cfg),
                nmat |-> r.nmat]

\* provider.Values calls the callback with one (path, value) pair
Callback(t, path, value) ==
    /\ rnd[t].pc = "values"
    /\ rnd[t].calls < MaxPairs
    /\ mayProduce(rnd[t].provider, cancelled)
    /\ Returned(t, rnd[t].provider, path, value,
                callback(fields, cfg, providers, options, rnd[t].provider, path, value))
    /\ UNCHANGED <<cancelled, wk, shut, wlog, co, scen, options, providers, watching,
                   subscribers, inbox, main, signal, nrounds, since, addOrder>>

\* provider.Values returns: nil, an error of its own, or ctx.Err() when a
\* provider that checks the context finds it cancelled
ValuesEnd(t, e) ==
    /\ rnd[t].pc = "values"
    /\ e = ErrCanceled => (cancelled /\ rnd[t].provider \in scen.behaved)
    /\ rnd' = [rnd EXCEPT ![t] = drained([@ EXCEPT !.err = e, !.pc = "tail"])]
    /\ main' = IF t = MainThread /\ e = ErrCanceled
               THEN [main EXCEPT !.obs = TRUE] ELSE main
    /\ UNCHANGED <<cancelled, wk, shut, wlog, co, scen, options, providers, watching,
                   fields, cfg, subscribers, inbox, signal, nrounds, since,
                   addOrder, accepted, last>>

\* provider.Values panics with pv: the deferred function of fetch recovers
\* and sets the named result; the rest of fetch's body is skipped
ValuesPanic(t, pv, e) ==
    /\ rnd[t].pc = "values"
    /\ e \in Recovered(pv)
    /\ rnd' = [rnd EXCEPT ![t] = unwound([@ EXCEPT !.err = e, !.panic = pv,
                                               !.pc = "tail"])]
    /\ UNCHANGED <<cancelled, wk, shut, wlog, co, scen, options, providers, watching,
                   fields, cfg, subscribers, inbox, main, signal, nrounds, since,
                   addOrder, accepted, last>>

Batch(r) == [round |-> r.id, err |-> NoErr, updates |-> r.updates]

\* what a subscriber keeps of a Notification it received
Received(n) == [round |-> n.round, err |-> n.err, n |-> Len(n.updates)]

ErrorNote(r) == [round |-> r.id, err |-> r.err, updates |-> <<>>]

\* what the caller of fetch publishes when fetch returned an error:
\* FetchWithContext returns the error, watch publishes a FieldUpdateError
failureNote(t, r) == IF t = MainThread THEN <<>> ELSE <<ErrorNote(r)>>

\* a fetch that publishes what it collected whatever Values returned
roundNoteBatch(t, r) == <<Batch(r)>>

\* what fetch and its caller publish for the round: the batch when Values
\* returned nil, nothing when a panic unwound fetch and left err nil
roundNote(t, r) ==
    IF r.err # NoErr THEN failureNote(t, r)
    ELSE IF r.panic = NoPanic THEN <<Batch(r)>> ELSE <<>>

\* a FetchWithContext that goes on with the next provider after a round
\* that failed
afterFetchGoOn(m, err) == m

\* if err := f.fetch(ctx, provider); err != nil { return err }
afterFetch(m, err) == IF err = NoErr THEN m ELSE Returning(m, err)

\* the round is over: fetch has returned to FetchWithContext or to watch
\* (ran: history of the rounds of this call and what fetch returned)
EndRound(t, r) ==
    /\ rnd' = [rnd EXCEPT ![t] = IdleRound]
    /\ main' = IF t # MainThread THEN main
               ELSE [afterFetch(main, r.err) EXCEPT
                        !.ran = Append(@, [provider |-> r.provider, err |-> r.err])]
    /\ wlog' = IF t = MainThread THEN wlog
               ELSE Append(wlog, [round |-> r.id, err |-> r.err])

\* the tail of fetch and of its caller: publish the batch when err == nil;
\* otherwise hand the error to the caller
FetchTail(t) ==
    /\ rnd[t].pc = "tail"
    /\ LET r    == rnd[t]
           note == roundNote(t, r)
       IN  IF Len(note) = 0 \/ subscribers = 0
           THEN EndRound(t, r)
           ELSE /\ rnd' = [rnd EXCEPT ![t].pc = "publish", ![t].note = note,
                                      ![t].pubN = subscribers, ![t].pubIdx = 1]
                /\ UNCHANGED <<main, wlog>>
    /\ last' = NoCall
    /\ UNCHANGED <<cancelled, wk, shut, co, scen, options, providers, watching, fields,
                   cfg, subscribers, inbox, signal, nrounds, since, addOrder,
                   accepted>>

\* a publish that returns after its first send
sentFirst(r) == r.pubIdx >= 1

\* publish: the range over f.subscribers is done after the send to the last
sentAll(r) == r.pubIdx = r.pubN

\* a send that the subscriber receives twice
sentTwice(ib, s, n) == [ib EXCEPT ![s] = Append(Append(@, n), n)]

\* ch <- notification on the unbuffered channel of subscriber s: the send
\* is over when the subscriber has received n
sent(ib, s, n) == [ib EXCEPT ![s] = Append(@, n)]

\* publish: ch <- notification, for the next subscriber channel in order;
\* the send completes when the subscriber receives
Deliver(t) ==
    /\ rnd[t].pc = "publish"
    /\ shut.chans = "open"
    /\ LET r == rnd[t]
       IN  /\ inbox' = sent(inbox, r.pubIdx, Received(r.note[1]))
           /\ IF sentAll(r)
              THEN EndRound(t, r)
              ELSE /\ rnd' = [rnd EXCEPT ![t].pubIdx = @ + 1]
                   /\ UNCHANGED <<main, wlog>>
    /\ UNCHANGED <<cancelled, wk, shut, co, scen, options, providers, watching, fields,
                   cfg, subscribers, signal, nrounds, since, addOrder, accepted,
                   last>>

-----------------------------------------------------------------------------
(* FetchWithContext, WatchWithContext and the watch workers *)

\* FetchWithContext: f.Add(providers...), then range over f.providers
FetchWithContext(ps) ==
    /\ main.pc = "idle"
    /\ nrounds < MaxRounds
    /\ providers' = Add(providers, ps)
    /\ addOrder' = FirstSeen(addOrder, ps)
    /\ main' = [MainIdle EXCEPT !.pc = "loop", !.todo = Known(providers'),
                                !.op = "fetch", !.pre = cancelled, !.args = ps]
    /\ UNCHANGED <<cancelled, wk, shut, wlog, co, scen, options, watching, fields, cfg,
                   subscribers, inbox, rnd, signal, nrounds, since, accepted, last>>

\* a WatchWithContext that does not look at f.watching
unwatchedAll(tbl, w) == Known(tbl) \cap scen.notify

\* the known NotifyProviders that are not in f.watching
unwatched(tbl, w) == (Known(tbl) \cap scen.notify) \ w

\* WatchWithContext: every known NotifyProvider not yet watched gets a worker
Watched(tbl, w) == w \cup unwatched(tbl, w)

\* what one WatchWithContext can do: Notify succeeds for every provider not
\* yet watched, or it fails for one of them after some others (map order)
\* have got their worker
WatchOutcomes(tbl, w) ==
    LET U == unwatched(tbl, w)
    IN  {[started |-> U, err |-> NoErr]}
          \cup {[started |-> S, err |-> ErrNotify] :
                   S \in UNION {SUBSET (U \ {f}) : f \in U \cap scen.failing}}

\* f.watching.add(provider); f.wg.Add(1); go f.watch(ctx, ch)
StartWorkers(w, S) ==
    [p \in DOMAIN w |-> IF p \in S
                        THEN [st |-> "run", ch |-> "open", started |-> w[p].started + 1]
                        ELSE w[p]]

\* a select that takes its default case although ctx.Done() is closed
selectDefault(c) == FALSE

\* select { case <-ctx.Done(): ... default: ... }: Done wins once it is closed
selectDone(c) == c

\* one iteration of the range loop (map order: any remaining provider), or
\* the end of the loop
FetchLoop ==
    /\ main.pc = "loop"
    /\ rnd[MainThread].pc = "idle"
    /\ IF main.todo = {}
       THEN /\ main' = Returning(main, NoErr)
            /\ UNCHANGED <<watching, wk, rnd, nrounds>>
       ELSE IF selectDone(cancelled)
       THEN /\ main' = Returning([main EXCEPT !.obs = TRUE], ErrCanceled)
            /\ UNCHANGED <<watching, wk, rnd, nrounds>>
       ELSE \E p \in main.todo :
            \E o \in IF options.AutoWatch THEN WatchOutcomes(providers, watching)
                     ELSE {[started |-> {}, err |-> NoErr]} :
                 /\ watching' = watching \cup o.started
                 /\ wk' = StartWorkers(wk, o.started)
                 /\ IF o.err # NoErr
                    THEN /\ main' = Returning(main, o.err)
                         /\ UNCHANGED <<rnd, nrounds>>
                    ELSE /\ nrounds < MaxRounds
                         /\ main' = [main EXCEPT !.todo = @ \ {p}, !.made = TRUE,
                                                 !.obs = @ \/ cancelled]
                         /\ rnd' = [rnd EXCEPT ![MainThread] = StartRound(p)]
                         /\ nrounds' = nrounds + 1
    /\ UNCHANGED <<cancelled, shut, wlog, co, scen, options, providers, fields, cfg,
                   subscribers, inbox, signal, since, addOrder, accepted, last>>

\* the call is over and its result is with the caller (who has no Fido to
\* go on with when New returned an error)
Return ==
    /\ main.pc = "return"
    /\ main.op = "new" => main.ret = NoErr
    /\ main' = IF shut.pc = "closed" THEN [MainIdle EXCEPT !.pc = "closed"]
               ELSE MainIdle
    /\ UNCHANGED <<cancelled, wk, shut, wlog, co, scen, options, providers, watching,
                   fields, cfg, subscribers, inbox, rnd, signal, nrounds, since,
                   addOrder, accepted, last>>

\* the caller calls WatchWithContext(ctx, ps...)
DoWatch(ps) ==
    /\ main.pc = "idle"
    /\ providers' = Add(providers, ps)
    /\ addOrder' = FirstSeen(addOrder, ps)
    /\ \E o \in WatchOutcomes(providers', watching) :
         /\ watching' = watching \cup o.started
         /\ wk' = StartWorkers(wk, o.started)
         /\ main' = Returning([MainIdle EXCEPT !.op = "watch"], o.err)
    /\ UNCHANGED <<cancelled, shut, wlog, co, scen, options, fields, cfg, subscribers,
                   inbox, rnd, signal, nrounds, since, accepted, last>>

\* the caller calls Watch(ps...):
\*     return f.FetchWithContext(context.Background())
\* ps is not passed on, nothing is added, and the range over f.providers
\* of FetchWithContext follows.  (The runs with this call have no
\* cancellation, so the background context and the caller's do not differ.)
Watch(ps) ==
    /\ main.pc = "idle"
    /\ nrounds < MaxRounds
    /\ main' = [MainIdle EXCEPT !.pc = "loop", !.todo = Known(providers),
                                !.op = "Watch", !.args = ps]
    /\ UNCHANGED <<cancelled, wk, shut, wlog, co, scen, options, providers, watching,
                   fields, cfg, subscribers, inbox, rnd, signal, nrounds, since,
                   addOrder, accepted, last>>

\* the context is cancelled
Cancel ==
    /\ ~cancelled
    /\ cancelled' = TRUE
    /\ UNCHANGED <<wk, shut, wlog, co, scen, options, providers, watching, fields, cfg,
                   subscribers, inbox, main, rnd, signal, nrounds, since, addOrder,
                   accepted, last>>

\* a watched provider signals a change on its channel
Notify(p) ==
    /\ p \in watching
    /\ wk[p].st = "run"
    /\ wk[p].ch = "open"
    /\ ~signal[p]
    /\ nrounds < MaxRounds
    /\ signal' = [signal EXCEPT ![p] = TRUE]
    /\ UNCHANGED <<cancelled, wk, shut, wlog, co, scen, options, providers, watching,
                   fields, cfg, subscribers, inbox, main, rnd, nrounds, since,
                   addOrder, accepted, last>>

\* watch: the worker receives the signal and, with AutoUpdate, runs fetch
\* (a select with several ready cases takes any of them)
WatchReceive(p) ==
    /\ wk[p].st = "run"
    /\ signal[p]
    /\ rnd[Worker(p)].pc = "idle"
    /\ signal' = [signal EXCEPT ![p] = FALSE]
    /\ IF options.AutoUpdate /\ nrounds < MaxRounds
       THEN /\ rnd' = [rnd EXCEPT ![Worker(p)] = StartRound(p)]
            /\ nrounds' = nrounds + 1
       ELSE UNCHANGED <<rnd, nrounds>>
    /\ UNCHANGED <<cancelled, wk, shut, wlog, co, scen, options, providers, watching,
                   fields, cfg, subscribers, inbox, main, since, addOrder, accepted,
                   last>>

\* a worker that also leaves when its last round failed
mayExitOnError(c, ch, failed) == c \/ ch = "closed" \/ failed

\* a worker that leaves on <-ctx.Done() only
mayExitOnDone(c, ch, failed) == c

\* watch returns on <-ctx.Done() or when ch is closed
mayExit(c, ch, failed) == c \/ ch = "closed"

\* the worker leaves: defer f.wg.Done()
WatchExit(p) ==
    /\ wk[p].st = "run"
    /\ rnd[Worker(p)].pc = "idle"
    /\ mayExit(cancelled, wk[p].ch,
               \E i \in 1..Len(wlog) : wlog[i].err # NoErr)
    /\ wk' = [wk EXCEPT ![p].st = "done"]
    /\ UNCHANGED <<cancelled, shut, wlog, co, scen, options, providers, watching, fields,
                   cfg, subscribers, inbox, main, rnd, signal, nrounds, since,
                   addOrder, accepted, last>>

-----------------------------------------------------------------------------
(* Close *)

\* what the loop over the CloseProviders can do: every Close succeeds, or
\* one fails after some others (map order) have been closed
CloseOutcomes(tbl) ==
    LET C == Known(tbl) \cap scen.closers
    IN  {[stopped |-> C, ok |-> C, err |-> NoErr]}
          \cup UNION { {[stopped |-> S \cup {f}, ok |-> S, err |-> ErrClose] :
                             S \in SUBSET (C \ {f})} : f \in C \cap scen.failing }

\* a provider's Close closes the change channel it handed out
CloseChannels(w, S) ==
    [p \in DOMAIN w |-> IF p \in S /\ w[p].ch = "open"
                        THEN [w[p] EXCEPT !.ch = "closed"] ELSE w[p]]

\* Close, up to f.wg.Wait(): the stop capability of every known provider
CloseStart ==
    /\ main.pc = "idle"
    /\ shut.pc = "open"
    /\ \E o \in CloseOutcomes(providers) :
         /\ wk' = CloseChannels(wk, o.ok)
         /\ signal' = [p \in DOMAIN signal |-> signal[p] /\ p \notin o.ok]
         /\ IF o.err = NoErr
            THEN /\ shut' = [shut EXCEPT !.pc = "wait", !.stopped = o.stopped]
                 /\ main' = [MainIdle EXCEPT !.pc = "closing", !.op = "close"]
            ELSE /\ shut' = [shut EXCEPT !.pc = "failed", !.stopped = o.stopped]
                 /\ main' = Returning([MainIdle EXCEPT !.op = "close"], o.err)
    /\ UNCHANGED <<cancelled, wlog, co, scen, options, providers, watching, fields, cfg,
                   subscribers, inbox, rnd, nrounds, since, addOrder, accepted,
                   last>>

\* a Close that does not wait for the workers
noWait(w) == TRUE

\* f.wg.Wait() returns when every worker started has called wg.Done()
workersDone(w) == \A p \in DOMAIN w : w[p].st # "run"

\* Close, from f.wg.Wait() on: close every subscriber channel, return nil
CloseWait ==
    /\ main.pc = "closing"
    /\ workersDone(wk)
    /\ shut' = [shut EXCEPT !.pc = "closed", !.chans = "closed"]
    /\ main' = Returning(main, NoErr)
    /\ UNCHANGED <<cancelled, wk, wlog, co, scen, options, providers, watching, fields,
                   cfg, subscribers, inbox, rnd, signal, nrounds, since, addOrder,
                   accepted, last>>

Next ==
    \/ \E ps \in AddLists : DoAdd(ps)
    \/ Subscribe
    \/ \E ps \in FetchLists : FetchWithContext(ps)
    \/ \E ps \in FetchLists : DoWatch(ps)
    \/ FetchLoop
    \/ Return
    \/ Cancel
    \/ \E p \in scen.notify : Notify(p)
    \/ \E p \in scen.notify : WatchReceive(p)
    \/ \E p \in scen.notify : WatchExit(p)
    \/ \E t \in Threads, path \in scen.paths, value \in scen.values :
           Callback(t, path, value)
    \/ \E t \in Threads, e \in {NoErr, ErrProvider, ErrCanceled} : ValuesEnd(t, e)
    \/ \E t \in Threads, pv \in scen.panics :
           \E e \in Recovered(pv) : ValuesPanic(t, pv, e)
    \/ \E t \in Threads : FetchTail(t)
    \/ \E t \in Threads : Deliver(t)
    \/ CloseStart
    \/ CloseWait

-----------------------------------------------------------------------------
(* The runs checked: which providers exist and what they supply *)

\* two providers writing a struct field and a map entry: text, the empty
\* text and a value no text slot accepts
ScenWrites ==
    [providers |-> {"p1", "p2"}, notify |-> {}, subs |-> 1,
     paths     |-> { <<"foo">>, <<"m", "k">> },
     values    |-> {StrV("a"), StrV(""), Flt},
     options   |-> {DefaultOptions},
     behaved   |-> {}, closers |-> {}, failing |-> {},
     panics    |-> {[kind |-> "error", v |-> "boom"]}]

\* one provider writing map entries, one path with the separator inside a
\* segment (a JSON key "m.k")
ScenMaps ==
    [providers |-> {"p1"}, notify |-> {}, subs |-> 1,
     paths     |-> { <<"m", "k">>, <<"m.k">>, <<"mm", "x", "y">> },
     values    |-> {StrV("a"), StrV("")},
     options   |-> {DefaultOptions},
     behaved   |-> {}, closers |-> {}, failing |-> {},
     panics    |-> {[kind |-> "error", v |-> "boom"]}]

\* three providers, added in any order
ScenTable ==
    [providers |-> {"p1", "p2", "p3"}, notify |-> {}, subs |-> 1,
     paths     |-> { <<"foo">> },
     values    |-> {StrV("a"), Flt},
     options   |-> {DefaultOptions},
     behaved   |-> {}, closers |-> {}, failing |-> {},
     panics    |-> {[kind |-> "error", v |-> "boom"]}]

\* one provider whose Values may panic with an error, with a value that
\* is not an error, or with nil
ScenPanics ==
    [providers |-> {"p1"}, notify |-> {}, subs |-> 1,
     paths     |-> { <<"foo">>, <<"m", "k">> },
     values    |-> {StrV("a"), StrV("b")},
     options   |-> {DefaultOptions},
     behaved   |-> {}, closers |-> {}, failing |-> {},
     panics    |-> PanicValues]

\* the caller's thread alone: no provider has the NotifyProvider capability
NextSync ==
    \/ \E ps \in AddLists : DoAdd(ps)
    \/ Subscribe
    \/ \E ps \in FetchLists : FetchWithContext(ps)
    \/ FetchLoop
    \/ \E path \in scen.paths, value \in scen.values : Callback(MainThread, path, value)
    \/ \E e \in {NoErr, ErrProvider} : ValuesEnd(MainThread, e)
    \/ \E pv \in scen.panics : \E e \in Recovered(pv) : ValuesPanic(MainThread, pv, e)
    \/ Return
    \/ FetchTail(MainThread)
    \/ Deliver(MainThread)

InitWrites == InitWith(ScenWrites)

SpecWrites == InitWrites /\ [][NextSync]_vars

InitMaps == InitWith(ScenMaps)

SpecMaps == InitMaps /\ [][NextSync]_vars

InitTable == InitWith(ScenTable)

SpecTable == InitTable /\ [][NextSync]_vars

\* two providers and a context that may be cancelled at any moment: p1
\* checks the context before each item (the inmemory provider), p2 does
\* not (TestProvider)
ScenCancel ==
    [providers |-> {"p1", "p2"}, notify |-> {}, subs |-> 1,
     paths     |-> { <<"foo">> },
     values    |-> {StrV("a"), StrV("b")},
     options   |-> {DefaultOptions},
     behaved   |-> {"p1"}, closers |-> {}, failing |-> {},
     panics    |-> {[kind |-> "error", v |-> "boom"]}]

\* the caller's thread, and whoever holds the context's cancel function
NextCancel ==
    \/ NextSync
    \/ Cancel
    \/ ValuesEnd(MainThread, ErrCanceled)

InitCancel == InitWith(ScenCancel)

SpecCancel == InitCancel /\ [][NextCancel]_vars

\* a provider with the NotifyProvider capability (p1) and one without
\* (p2), two subscribers; Notify may fail
ScenWorkers ==
    [providers |-> {"p1", "p2"}, notify |-> {"p1"}, subs |-> 2,
     paths     |-> { <<"foo">> },
     values    |-> {StrV("a"), Flt},
     options   |-> {DefaultOptions},
     behaved   |-> {}, closers |-> {}, failing |-> {"p1"},
     panics    |-> {[kind |-> "error", v |-> "boom"]}]

\* the caller's thread and the watch workers, no cancellation, no Close
NextWorkers ==
    \/ NextSync
    \/ \E ps \in FetchLists : DoWatch(ps)
    \/ \E p \in scen.notify : Notify(p)
    \/ \E p \in scen.notify : WatchReceive(p)
    \/ \E p \in scen.notify, path \in scen.paths, value \in scen.values :
           Callback(Worker(p), path, value)
    \/ \E p \in scen.notify, e \in {NoErr, ErrProvider} : ValuesEnd(Worker(p), e)
    \/ \E p \in scen.notify, pv \in scen.panics :
           \E e \in Recovered(pv) : ValuesPanic(Worker(p), pv, e)
    \/ \E p \in scen.notify : FetchTail(Worker(p))
    \/ \E p \in scen.notify : Deliver(Worker(p))

InitWorkers == InitWith(ScenWorkers)

SpecWorkers == InitWorkers /\ [][NextWorkers]_vars

\* one provider with the NotifyProvider and CloseProvider capabilities that
\* checks the context; its Notify and its Close may fail; one subscriber;
\* cancellation and Close at any moment
ScenWatch ==
    [providers |-> {"p1"}, notify |-> {"p1"}, subs |-> 1,
     paths     |-> { <<"foo">> },
     values    |-> {StrV("a"), Flt},
     options   |-> {DefaultOptions},
     behaved   |-> {"p1"}, closers |-> {"p1"}, failing |-> {"p1"},
     panics    |-> {[kind |-> "error", v |-> "boom"]}]

InitWatch == InitWith(ScenWatch)

SpecWatch == InitWatch /\ [][Next]_vars

\* one provider that also supplies paths the destination does not have,
\* with ErrorOnFieldNotFound off and on
ScenLookup ==
    [providers |-> {"p1"}, notify |-> {}, subs |-> 1,
     paths     |-> { <<"foo">>, <<"zz">>, <<"zz", "y">>, <<>> },
     values    |-> {StrV("a"), StrV("b")},
     options   |-> {DefaultOptions,
                    [DefaultOptions EXCEPT !.ErrorOnFieldNotFound = TRUE]},
     behaved   |-> {}, closers |-> {}, failing |-> {},
     panics    |-> {[kind |-> "error", v |-> "boom"]}]

InitLookup == InitWith(ScenLookup)

SpecLookup == InitLookup /\ [][NextSync]_vars

\* New called with each kind of destination; on success one provider
\* writes the struct field
ScenNew(d) ==
    [providers |-> {"p1"}, notify |-> {}, subs |-> 1,
     paths     |-> { <<"foo">> },
     values    |-> {StrV("a"), StrV("b")},
     options   |-> {DefaultOptions},
     behaved   |-> {}, closers |-> {}, failing |-> {},
     panics    |-> {[kind |-> "error", v |-> "boom"]},
     dst       |-> d]

InitNew ==
    \E d \in Destinations :
        InitFrom(ScenNew(d), New(d, DefaultOptions), Constructed(New(d, DefaultOptions)))

SpecNew == InitNew /\ [][NextSync]_vars

InitPanics == InitWith(ScenPanics)

\* the record shapes hydrated in the construction runs:
\*     struct { A  string `fido:"a"`
\*              In struct { X string            `fido:"x"`
\*                          Y map[string]string `fido:"y"` } `fido:"in"`
\*              C  int8 `fido:"c,omitempty"` }
\* with each of the five tags there or not
TagIf(there, comps) == IF there THEN Tagged(comps) ELSE Untagged

ShapeOf(ta, tin, tx, ty, tc) ==
    TStruct(<< SField("A", TagIf(ta, <<"a">>), TString),
               SField("In", TagIf(tin, <<"in">>),
                      TStruct(<< SField("X", TagIf(tx, <<"x">>), TString),
                                 SField("Y", TagIf(ty, <<"y">>), TMap("string", TString)) >>)),
               SField("C", TagIf(tc, <<"c", "omitempty">>), TInt(8)) >>)

\* struct { Top struct { Mid struct { L string `fido:"l"` } `fido:"mid"`
\*                       E   struct {} `fido:"e"` } `fido:"top"` }
DeepShape ==
    TStruct(<< SField("Top", Tagged(<<"top">>),
                      TStruct(<< SField("Mid", Tagged(<<"mid">>),
                                        TStruct(<< SField("L", Tagged(<<"l">>), TString) >>)),
                                 SField("E", Tagged(<<"e">>), TStruct(<<>>)) >>)) >>)

HydrateShapes ==
    {ShapeOf(ta, tin, tx, ty, tc) : ta \in BOOLEAN, tin \in BOOLEAN, tx \in BOOLEAN,
                                     ty \in BOOLEAN, tc \in BOOLEAN}
      \cup {DeepShape}

\* New called with a pointer to a record of each shape, with
\* ErrorOnMissingTag on (the default) and off; on success one provider
\* writes a leaf and a map entry of the nested record
ScenHydrate(d) ==
    [providers |-> {"p1"}, notify |-> {}, subs |-> 1,
     paths     |-> { <<"a">>, <<"in", "y", "k">> },
     values    |-> {StrV("a"), StrV("b")},
     options   |-> {DefaultOptions, [DefaultOptions EXCEPT !.ErrorOnMissingTag = FALSE]},
     behaved   |-> {}, closers |-> {}, failing |-> {},
     panics    |-> {[kind |-> "error", v |-> "boom"]},
     dst       |-> d]

InitHydrate ==
    \E sh \in HydrateShapes :
        \E o \in ScenHydrate(PtrTo(sh)).options :
            InitFrom(ScenHydrate(PtrTo(sh)), New(PtrTo(sh), o),
                     Constructed(New(PtrTo(sh), o)))

SpecHydrate == InitHydrate /\ [][NextSync]_vars

SpecPanics == InitPanics /\ [][NextSync]_vars

\* one provider writing a map entry and the int8 field: an int, text that
\* is no number, and a float64
ScenSets ==
    [providers |-> {"p1"}, notify |-> {}, subs |-> 1,
     paths     |-> { <<"m", "k">>, <<"n">> },
     values    |-> {IntV(5), StrV("a"), Flt},
     options   |-> {DefaultOptions},
     behaved   |-> {}, closers |-> {}, failing |-> {},
     panics    |-> {[kind |-> "error", v |-> "boom"]}]

InitSets == InitWith(ScenSets)

SpecSets == InitSets /\ [][NextSync]_vars

\* one provider writing below the map of maps: one and two segments after
\* the path of MM
ScenNested ==
    [providers |-> {"p1"}, notify |-> {}, subs |-> 1,
     paths     |-> { <<"mm", "x">>, <<"mm", "x", "y">> },
     values    |-> {StrV("a"), StrV("b")},
     options   |-> {DefaultOptions},
     behaved   |-> {}, closers |-> {}, failing |-> {},
     panics    |-> {[kind |-> "error", v |-> "boom"]}]

InitNested == InitWith(ScenNested)

SpecNested == InitNested /\ [][NextSync]_vars

\* a provider with the NotifyProvider capability, with AutoWatch on (the
\* default) and off
ScenWatchCall ==
    [providers |-> {"p1"}, notify |-> {"p1"}, subs |-> 1,
     paths     |-> { <<"foo">> },
     values    |-> {StrV("a")},
     options   |-> {DefaultOptions, [DefaultOptions EXCEPT !.AutoWatch = FALSE]},
     behaved   |-> {}, closers |-> {}, failing |-> {},
     panics    |-> {[kind |-> "error", v |-> "boom"]}]

\* the caller's thread and the watch workers, with calls of Watch
NextWatchCall ==
    \/ NextWorkers
    \/ \E ps \in FetchLists : Watch(ps)

InitWatchCall == InitWith(ScenWatchCall)

SpecWatchCall == InitWatchCall /\ [][NextWatchCall]_vars

\* the destinations of the coercion runs: int8, int16, uint8, uint16,
\* string, []int8 and [2]int8
CoerceTypes ==
    {TInt(8), TInt(16), TUint(8), TUint(16), TString, TSlice(TInt(8)), TArray(2, TInt(8))}

\* what a destination holds before the call: its zero value, or something
\* stored earlier
Held(typ) ==
    CASE typ.kind = "string" -> {"", "x"}
      [] typ.kind \in {"int", "uint"} -> {0, 7}
      [] typ.kind = "slice" -> {<<>>, <<9>>}
      [] typ.kind = "array" -> {<<0, 0>>, <<9, 9>>}

\* a reflect.Value of each type, settable or not
CoerceSlots ==
    UNION {{Slot(typ, v, cs) : v \in Held(typ), cs \in BOOLEAN} : typ \in CoerceTypes}

Texts ==
    {"", "a", "5", "+5", "-5", "-", "12a", "007", "127", "128", "-128", "-129",
     "255", "256", "5000000000", "9223372036854775807", "9223372036854775808",
     "-9223372036854775809", "18446744073709551616"}

Numbers == {0 - 32769, 0 - 32768, 0 - 129, 0 - 128, 0 - 5, 0, 5, 127, 128, 255, 256,
            32767, 32768, 65535, 65536}

\* the values a Go integer type holds (the 32- and 64-bit types hold every
\* number drawn here)
Holds(t, n) ==
    CASE t = "int8"   -> 0 - 128 <= n /\ n <= 127
      [] t = "int16"  -> 0 - 32768 <= n /\ n <= 32767
      [] t = "uint8"  -> 0 <= n /\ n <= 255
      [] t = "uint16" -> 0 <= n /\ n <= 65535
      [] t \in UnsignedTypes -> 0 <= n
      [] OTHER -> TRUE

\* the elements of the sequences handed in
Elements ==
    {TypedInt("int8", 1), StrV("5"), StrV("a"), TypedInt("int16", 128), Flt}

\* the inputs of the coercion runs: texts, integers of every type, a
\* float64, booleans, and []interface{} of up to two elements
CoerceInputs ==
    {StrV(x) : x \in Texts}
      \cup UNION {{TypedInt(t, n) : n \in {m \in Numbers : Holds(t, m)}} :
                     t \in SignedTypes \cup UnsignedTypes}
      \cup {Flt, BoolV(TRUE), BoolV(FALSE), SliceV(<<>>)}
      \cup {SliceV(<<e>>) : e \in Elements}
      \cup {SliceV(<<e, f>>) : e \in Elements, f \in Elements}

\* a setValue call about to be made
Coercion(slot, to) ==
    [pc |-> "call", slot |-> slot, to |-> to, ret |-> Done(NoErr, slot.val)]

\* the coercion runs have no provider
ScenCoerce ==
    [providers |-> {}, notify |-> {}, subs |-> 0,
     paths     |-> {},
     values    |-> CoerceInputs,
     options   |-> {DefaultOptions},
     behaved   |-> {}, closers |-> {}, failing |-> {},
     panics    |-> {}]

InitCoerce ==
    \E slot \in CoerceSlots, to \in ScenCoerce.values :
        InitState(ScenCoerce, New(ValidDst, DefaultOptions), MainIdle, Coercion(slot, to))

\* setValue(dst, to) is called and returns (or panics)
Coerce ==
    /\ co.pc = "call"
    /\ co' = [co EXCEPT !.pc = "done", !.ret = setValue(co.slot, co.to)]
    /\ UNCHANGED <<scen, options, providers, watching, fields, cfg, subscribers,
                   inbox, main, rnd, signal, nrounds, since, addOrder, accepted,
                   last, cancelled, wk, shut, wlog>>

NextCoerce == Coerce

SpecCoerce == InitCoerce /\ [][NextCoerce]_vars

-----------------------------------------------------------------------------
(* Properties *)

Called == last.outcome # "none"

\* the Field the last callback resolved its path to
LastField == fields[last.key]

\* C1: with priority enforcement on, a write by a provider ranked below the
\* Field's current owner is dropped silently: the callback returns no error,
\* the registry and the destination are exactly as before (the owner's value
\* and the owner stay) and no Field Update is produced.
C1_LowerRankedWriteDropped ==
    ( /\ Called
      /\ options.EnforcePriority
      /\ last.owner # Nil
      /\ priority(providers, last.provider) > 0
      /\ priority(providers, last.provider) < priority(providers, last.owner) )
    => ( /\ last.err = NoErr
         /\ last.nupd = 0
         /\ last.same
         /\ LastField.provider = last.owner )

C1_Witness ==
    /\ Called
    /\ last.provider = "p1" /\ last.owner = "p2"
    /\ priority(providers, "p1") = 1 /\ priority(providers, "p2") = 2
    /\ last.path = <<"foo">> /\ last.value = StrV("") /\ cfg.Foo = "a"
    /\ LastField.provider = "p2"

\* C2 as stated: any write to a Field that has no owner, or is owned by the
\* writer, or by a provider whose priority is not above the writer's, makes
\* the writer the owner and produces one Field Update.
C2_AnyPermittedWriteAccepted ==
    ( /\ Called
      /\ last.key # ""
      /\ \/ last.owner = Nil
         \/ last.owner = last.provider
         \/ priority(providers, last.owner) <= priority(providers, last.provider) )
    => ( /\ last.err = NoErr
         /\ last.nupd = 1
         /\ LastField.provider = last.provider )

\* C2: a text value that differs from the one stored, written to a text Field
\* that has no owner, or is owned by the writer, or by a provider whose
\* priority is not above the writer's, is accepted: no error, the destination
\* holds the new value, the owner is the writer, one Field Update is produced.
C2_PermittedWriteAccepted ==
    ( /\ Called
      /\ last.key # ""
      /\ LastField.typ.kind = "string"
      /\ last.value.t = "string"
      /\ last.value # last.prev
      /\ \/ last.owner = Nil
         \/ last.owner = last.provider
         \/ priority(providers, last.owner) <= priority(providers, last.provider) )
    => ( /\ last.err = NoErr
         /\ last.nupd = 1
         /\ LastField.provider = last.provider
         /\ Value(cfg, LastField) = last.value.s )

C2_Witness ==
    /\ Called
    /\ last.owner = "p1" /\ last.provider = "p2"
    /\ priority(providers, "p1") = 1 /\ priority(providers, "p2") = 2
    /\ last.prev = StrV("a") /\ last.value = StrV("")
    /\ LastField.provider = "p2"

\* C3: the Nth distinct provider ever added has priority N, a provider never
\* added has priority 0; so priorities of added providers are positive and
\* pairwise distinct, and adding a provider again changes nothing.
C3_PriorityIsAddOrder ==
    /\ \A i \in 1..Len(addOrder) : priority(providers, addOrder[i]) = i
    /\ \A p \in scen.providers :
          (\A i \in 1..Len(addOrder) : addOrder[i] # p) => priority(providers, p) = 0
    /\ \A p, q \in Known(providers) :
          p # q => priority(providers, p) # priority(providers, q)

C3_Witness ==
    /\ Len(addOrder) = 3
    /\ priority(providers, addOrder[3]) = 3
    /\ nrounds > 0

\* C4: writing the value a Field already holds changes nothing: no error, no
\* Field Update, registry and destination as before (so the owner stays, also
\* when the writer outranks it).
C4_SameValueIsNoOp ==
    ( /\ Called
      /\ last.key # ""
      /\ ~last.mat
      /\ last.value = last.prev )
    => ( /\ last.err = NoErr
         /\ last.nupd = 0
         /\ last.same )

C4_Witness ==
    /\ Called
    /\ last.value = StrV("a") /\ last.prev = StrV("a")
    /\ last.owner = "p1" /\ last.provider = "p2"
    /\ priority(providers, "p1") < priority(providers, "p2")
    /\ LastField.provider = "p1"

\* C5: every Field's recorded provider is the provider of the most recent
\* accepted write to it, and nil if there was none; dropped, suppressed and
\* failed writes leave it alone.
C5_OwnerIsLastAcceptedWriter ==
    /\ DOMAIN accepted = DOMAIN fields
    /\ \A k \in DOMAIN fields : fields[k].provider = accepted[k]

C5_Witness ==
    /\ Called
    /\ last.outcome = "seterr"
    /\ last.provider = "p2"
    /\ LastField.provider = "p1"

\* the registered Fields by path, and the paths looked up
Registered(p) == \E k \in DOMAIN fields : equal(fields[k].path, p)

ProperPrefixes(p) == {SubSeq(p, 1, n) : n \in 1..(Len(p) - 1)}

QueryPaths == {<<>>} \cup scen.paths \cup UNION {ProperPrefixes(p) : p \in scen.paths}

\* C6: get(path) returns the Field registered at exactly that path if there
\* is one; otherwise the Field at the longest registered proper prefix; and
\* not-found if no non-empty prefix is registered (the empty path included).
C6_GetExactOrLongestPrefix ==
    \A path \in QueryPaths :
      LET g   == get(fields, path)
          reg == {q \in ProperPrefixes(path) : Registered(q)}
      IN  IF Registered(path) THEN g.ok /\ equal(fields[g.key].path, path)
          ELSE IF reg # {}
          THEN /\ g.ok
               /\ fields[g.key].path \in reg
               /\ \A q \in reg : Len(q) <= Len(fields[g.key].path)
          ELSE ~g.ok

\* C7: after a round's write of a text v to m.k the destination map holds
\* key k with value v (one provider: no write is dropped by priority).
C7_MapHoldsWrittenEntry ==
    ( /\ Called
      /\ last.path = <<"m", "k">>
      /\ last.value.t = "string"
      /\ last.err = NoErr )
    => ( /\ ~cfg.M.nil
         /\ "k" \in DOMAIN cfg.M.m
         /\ cfg.M.m["k"] = last.value.s )

\* C8: a write of v to mm.x.y leaves the destination map as {x: {y: v}}.
C8_NestedMapKeys ==
    ( /\ Called
      /\ last.path = <<"mm", "x", "y">>
      /\ last.value = StrV("a")
      /\ last.err = NoErr )
    => ( /\ DOMAIN cfg.MM.m = {"x"}
         /\ DOMAIN cfg.MM.m["x"].m = {"y"}
         /\ cfg.MM.m["x"].m["y"] = "a" )

\* the rounds that have been started and are over
Completed == {i \in 1..nrounds : \A t \in Threads : rnd[t].id # i}

NotesOf(s, i) == {j \in 1..Len(inbox[s]) : inbox[s][j].round = i}

\* C9: every round that is over - synchronous or run by a watch worker - has
\* put exactly one Notification on the channel of every subscriber that
\* subscribed before the round started.
C9_OneNotificationPerRound ==
    \A s \in 1..subscribers : \A i \in Completed :
        i > since[s] => Cardinality(NotesOf(s, i)) = 1

\* C10: the batch of a round that ended without error is the list of the
\* Field Updates of the writes accepted in that round, in the order applied.
C10_BatchIsAcceptedWritesInOrder ==
    \A t \in Threads :
        (rnd[t].err = NoErr /\ rnd[t].pc \in {"tail", "publish"})
        => /\ rnd[t].updates = rnd[t].applied
           /\ rnd[t].pc = "publish" => rnd[t].note = <<Batch(rnd[t])>>

C10_Witness ==
    /\ rnd[MainThread].pc = "publish"
    /\ rnd[MainThread].err = NoErr
    /\ Len(rnd[MainThread].note[1].updates) = 2
    /\ rnd[MainThread].note[1].updates[1].Path = <<"foo">>
    /\ rnd[MainThread].note[1].updates[2].Path = <<"m", "k">>

\* C11: a panic of the provider's Values call ends in fetch: when it
\* carried an error, fetch returns an error that wraps that error; when it
\* carried anything else, fetch returns an error that wraps a NonErrPanic
\* holding the value.
C11_PanicBecomesTypedError ==
    \A t \in Threads :
        (rnd[t].pc = "tail" /\ rnd[t].panic # NoPanic)
        => IF rnd[t].panic.kind = "error"
           THEN Is(rnd[t].err, rnd[t].panic.v)
           ELSE Is(rnd[t].err, NonErrPanic(rnd[t].panic.v))

\* C12 as stated: a FetchWithContext called with a context that is already
\* cancelled makes no Values call, applies nothing and returns the
\* cancellation error.
C12_PreCancelledFetchFails ==
    (main.op = "fetch" /\ main.pre)
    => ( /\ ~main.made
         /\ rnd[MainThread].pc = "idle"
         /\ main.pc = "return" => main.ret = ErrCanceled )

\* C12: a FetchWithContext called with a context that is already cancelled,
\* on a Fido that knows at least one provider (passed to this call or added
\* before), makes no Values call, applies nothing and returns the
\* cancellation error.
C12_PreCancelledFetchWithProviderFails ==
    (main.op = "fetch" /\ main.pre /\ Known(providers) # {})
    => ( /\ ~main.made
         /\ rnd[MainThread].pc = "idle"
         /\ main.pc = "return" => main.ret = ErrCanceled )

C12_Witness ==
    /\ main.op = "fetch" /\ main.pre
    /\ main.pc = "return" /\ main.ret = ErrCanceled
    /\ Known(providers) = {"p1", "p2"}
    /\ cfg.Foo = "a"

\* C13: while the context is cancelled, FetchWithContext starts no round
\* and a provider that checks the context applies no further pair, so the
\* registry and the destination stay as the writes made before left them;
\* and a call in which a check found the context cancelled returns the
\* cancellation error.
C13_CancellationStopsFetch ==
    [][ /\ cancelled => nrounds' = nrounds
        /\ (cancelled /\ rnd[MainThread].provider \in scen.behaved \cup {Nil})
              => (fields' = fields /\ cfg' = cfg /\ accepted' = accepted)
        /\ (main'.pc = "return" /\ main'.op = "fetch" /\ main'.obs)
              => main'.ret = ErrCanceled ]_vars

C13_Witness ==
    /\ cancelled
    /\ main.op = "fetch" /\ ~main.pre /\ main.made /\ main.obs
    /\ main.pc = "return" /\ main.ret = ErrCanceled
    /\ cfg.Foo = "a"
    /\ fields["foo"].provider = "p1"
    /\ nrounds = 1

C15_WorkerSurvivesFailedRound ==
    /\ \A p \in scen.notify :
          wk[p].st = "done" => (cancelled \/ wk[p].ch = "closed")
    /\ \A i \in 1..Len(wlog) : \A s \in 1..subscribers :
          (wlog[i].err # NoErr /\ since[s] < wlog[i].round)
          => /\ Cardinality(NotesOf(s, wlog[i].round)) = 1
             /\ \A j \in NotesOf(s, wlog[i].round) : inbox[s][j].err = wlog[i].err

C15_Witness ==
    /\ Len(wlog) = 2
    /\ wlog[1].err = ErrSetInvalidType
    /\ wk["p1"].st = "run" /\ wk["p1"].ch = "open"
    /\ ~cancelled
    /\ subscribers = 1 /\ since[1] = 0
    /\ Len(inbox[1]) = 2 /\ inbox[1][1].err = ErrSetInvalidType

\* C16: when Close has returned, the stop capability of every known
\* provider that has one has been invoked, no watch worker is running and
\* the subscriber channels are closed; and the channels are closed only
\* after the other two.
C16_CloseStopsWaitsCloses ==
    /\ (main.op = "close" /\ main.pc = "return")
         => /\ shut.stopped = Known(providers) \cap scen.closers
            /\ workersDone(wk)
            /\ shut.chans = "closed"
    /\ shut.chans = "closed"
         => /\ shut.stopped = Known(providers) \cap scen.closers
            /\ workersDone(wk)

HasNote(ib, s, i) == \E j \in 1..Len(ib[s]) : ib[s][j].round = i

\* C18: publish sends to the subscribers in subscription order and each
\* send waits for its receiver: while a round is publishing, exactly the
\* subscribers before the one being sent to have received its
\* Notification, and the round ends only with the receive of the last one.
C18_PublishBlocksInOrder ==
    [][ \A t \in Threads :
          /\ rnd'[t].pc = "publish"
                => \A s \in 1..rnd'[t].pubN :
                      HasNote(inbox', s, rnd'[t].id) <=> s < rnd'[t].pubIdx
          /\ (rnd[t].pc = "publish" /\ rnd'[t].pc # "publish")
                => \A s \in 1..rnd[t].pubN : HasNote(inbox', s, rnd[t].id) ]_vars

C18_Witness ==
    /\ subscribers = 2
    /\ rnd[Worker("p1")].pc = "publish"
    /\ rnd[Worker("p1")].pubIdx = 2 /\ rnd[Worker("p1")].pubN = 2
    /\ rnd[Worker("p1")].err # NoErr
    /\ Len(inbox[1]) = 2 /\ inbox[1][2].round = rnd[Worker("p1")].id
    /\ Len(inbox[2]) = 1

\* C19: a pair whose path has no registered Field and no registered
\* ancestor: with ErrorOnFieldNotFound the callback returns ErrFieldNotFound
\* and the round, then FetchWithContext, return that error; without it the
\* callback returns nil, produces no Field Update, changes nothing and the
\* round goes on.
C19_UnknownPathFailsOrIsSkipped ==
    [][ /\ ( /\ rnd'[MainThread].calls = rnd[MainThread].calls + 1
             /\ ~Registered(last'.path)
             /\ \A q \in ProperPrefixes(last'.path) : ~Registered(q) )
          => /\ fields' = fields /\ cfg' = cfg
             /\ rnd'[MainThread].updates = rnd[MainThread].updates
             /\ IF options.ErrorOnFieldNotFound
                THEN /\ last'.err = ErrFieldNotFound
                     /\ rnd'[MainThread].pc = "tail"
                     /\ rnd'[MainThread].err = ErrFieldNotFound
                ELSE /\ last'.err = NoErr
                     /\ rnd'[MainThread].pc = "values"
                     /\ rnd'[MainThread].err = NoErr
        /\ ( /\ rnd[MainThread].pc = "tail"
             /\ rnd[MainThread].err = ErrFieldNotFound
             /\ rnd'[MainThread].pc # "tail" )
          => (main'.pc = "return" /\ main'.ret = ErrFieldNotFound) ]_vars

C19_Witness ==
    /\ Called
    /\ options.ErrorOnFieldNotFound
    /\ last.path = <<"zz", "y">>
    /\ rnd[MainThread].err = ErrFieldNotFound
    /\ rnd[MainThread].calls = 2
    /\ Len(rnd[MainThread].applied) = 1
    /\ cfg.Foo = "a"

\* C20: New returns ErrDestinationTypeInvalid for an invalid value,
\* ErrDestinationNotPtr for a value that is not a pointer, ErrDestinationNil
\* for a nil pointer, ErrDestinationTypeInvalid for a pointer to anything
\* but a struct, and nil for a non-nil pointer to a struct.
C20_NewChecksDestination ==
    main.op = "new"
    => LET d == scen.dst
       IN  /\ ~d.valid => main.ret = ErrDestinationTypeInvalid
           /\ (d.valid /\ d.kind # "ptr") => main.ret = ErrDestinationNotPtr
           /\ (d.valid /\ d.kind = "ptr" /\ d.nil) => main.ret = ErrDestinationNil
           /\ (d.valid /\ d.kind = "ptr" /\ ~d.nil /\ d.elem # "struct")
                 => main.ret = ErrDestinationTypeInvalid
           /\ d = ValidDst <=> main.ret = NoErr

C20_Witness ==
    /\ main.op = "new"
    /\ main.pc = "return"
    /\ scen.dst = Dst(TRUE, "ptr", TRUE, "struct")
    /\ main.ret = ErrDestinationNil

-----------------------------------------------------------------------------
(* Construction: what hydrate registers *)

\* New has just returned
AfterNew == main.op = "new" /\ main.pc = "return"

\* some field of the record, at any depth, has no tag
RECURSIVE HasUntagged(_)
HasUntagged(typ) ==
    /\ typ.kind = "struct"
    /\ \E i \in 1..Len(typ.fields) :
          ~typ.fields[i].tag.ok \/ HasUntagged(typ.fields[i].typ)

\* the leaves whose own field and whose enclosing fields all have a tag:
\* the tag names leading to the leaf, its slot and its type
RECURSIVE TaggedLeaves(_, _, _)
TaggedLeaves(p, names, typ) ==
    IF typ.kind # "struct" THEN {[path |-> p, loc |-> key(names), typ |-> typ]}
    ELSE UNION {TaggedLeaves(Append(p, typ.fields[i].tag.comps[1]),
                             Append(names, typ.fields[i].name), typ.fields[i].typ) :
                   i \in {j \in 1..Len(typ.fields) : typ.fields[j].tag.ok}}

\* C21: a structural error at hydrate time leaves no partial registry: the
\* Fido that New hands back with the error has no Field registered.
C21_FailedNewKeepsNothing ==
    (AfterNew /\ main.ret # NoErr) => DOMAIN fields = {}

\* C22: with ErrorOnMissingTag on, a field without the tag makes New fail
\* with ErrStructTagNotFound; otherwise New succeeds and the registry holds
\* exactly the leaves whose field and enclosing fields are all tagged, each
\* under the joined tag names and bound to its own slot, and no struct.
C22_MissingTagFailsOrSkips ==
    AfterNew =>
      LET T == scen.dst.typ
          L == TaggedLeaves(<<>>, <<>>, T)
      IN  IF options.ErrorOnMissingTag /\ HasUntagged(T)
          THEN main.ret = ErrStructTagNotFound
          ELSE /\ main.ret = NoErr
               /\ DOMAIN fields = {key(l.path) : l \in L}
               /\ \A l \in L :
                     /\ fields[key(l.path)].path = l.path
                     /\ fields[key(l.path)].loc = <<l.loc>>
                     /\ fields[key(l.path)].typ = l.typ
                     /\ l.typ.kind # "struct"

C22_Witness ==
    /\ AfterNew
    /\ ~options.ErrorOnMissingTag
    /\ scen.dst.typ = ShapeOf(TRUE, TRUE, FALSE, TRUE, FALSE)
    /\ main.ret = NoErr
    /\ DOMAIN fields = {"a", "in.y"}

-----------------------------------------------------------------------------
(* Coercion failures *)

\* the errors setValue returns
CoercionErrors ==
    {ErrReflectValueNotSetable, ErrSetInvalidType, ErrSetInvalidValue, ErrSetOverflow}

\* the step is a callback invocation of thread t that ended in Field.Set
\* returning an error
SetFailed(t) ==
    /\ rnd'[t].calls = rnd[t].calls + 1
    /\ last'.outcome = "seterr"
    /\ last'.err \in CoercionErrors

\* C23: a pair whose coercion fails has no side effects: the destination
\* record (the maps on the path included) is as before, the Field keeps
\* its owner, the round's update list is as before, and the callback
\* returns the error.
C23_FailedCoercionHasNoEffect ==
    [][\A t \in Threads :
          SetFailed(t) =>
             /\ cfg' = cfg
             /\ fields'[last'.key].provider = last'.owner
             /\ rnd'[t].updates = rnd[t].updates
             /\ rnd'[t].err = last'.err]_vars

\* setValue has returned from a call on a settable slot of one of the kinds
Coerced(kinds) ==
    /\ co.pc = "done"
    /\ co.slot.canSet
    /\ co.slot.typ.kind \in kinds

\* what an element of the sequences is as an int8: a value or an error
AsInt8(e) ==
    CASE e = TypedInt("int8", 1)    -> [err |-> NoErr, v |-> 1]
      [] e = StrV("5")              -> [err |-> NoErr, v |-> 5]
      [] e = StrV("a")              -> [err |-> ErrSetInvalidValue, v |-> 0]
      [] e = TypedInt("int16", 128) -> [err |-> ErrSetOverflow, v |-> 0]
      [] e = Flt                    -> [err |-> ErrSetInvalidType, v |-> 0]

\* the indices of the elements that cannot be coerced
Failing(es) == {i \in 1..Len(es) : AsInt8(es[i]).err # NoErr}

Min(S) == CHOOSE i \in S : \A j \in S : i <= j

\* the outcome claimed for a sequence destination
SequenceOutcome ==
    IF ~IsSequence(co.to)
    THEN co.ret.err = ErrSetInvalidType /\ co.ret.val = co.slot.val
    ELSE IF Failing(co.to.e) # {}
    THEN /\ co.ret.err = AsInt8(co.to.e[Min(Failing(co.to.e))]).err
         /\ co.ret.val = co.slot.val
    ELSE /\ co.ret.err = NoErr
         /\ co.ret.val = [i \in 1..Len(co.to.e) |-> AsInt8(co.to.e[i]).v]

\* C24: coercion into a sequence destination builds the new sequence from
\* the input's elements in index order and assigns it; if an element fails
\* the call returns that element's error and the destination keeps what it
\* held; an input that is not a sequence fails with ErrSetInvalidType.
C24_SequenceAllOrNothing ==
    Coerced({"slice", "array"}) => (co.ret.panic = "" /\ SequenceOutcome)

\* what a text says, read as a base-10 integer: wf = an optional sign and
\* then digits only, signed = it starts with a sign, small = at most nine
\* digits (then v is the number), in64 / inU64 = the number lies in the
\* range of int64 / uint64
Reading(wf, signed, small, v, in64, inU64) ==
    [wf |-> wf, signed |-> signed, small |-> small, v |-> v,
     in64 |-> in64, inU64 |-> inU64]

NotANumber == Reading(FALSE, FALSE, FALSE, 0, FALSE, FALSE)

Small(signed, v) == Reading(TRUE, signed, TRUE, v, TRUE, v >= 0)

Read(text) ==
    CASE text = "5"    -> Small(FALSE, 5)
      [] text = "+5"   -> Small(TRUE, 5)
      [] text = "-5"   -> Small(TRUE, 0 - 5)
      [] text = "007"  -> Small(FALSE, 7)
      [] text = "127"  -> Small(FALSE, 127)
      [] text = "128"  -> Small(FALSE, 128)
      [] text = "-128" -> Small(TRUE, 0 - 128)
      [] text = "-129" -> Small(TRUE, 0 - 129)
      [] text = "255"  -> Small(FALSE, 255)
      [] text = "256"  -> Small(FALSE, 256)
      [] text = "5000000000"           -> Reading(TRUE, FALSE, FALSE, 0, TRUE, TRUE)
      [] text = "9223372036854775807"  -> Reading(TRUE, FALSE, FALSE, 0, TRUE, TRUE)
      [] text = "9223372036854775808"  -> Reading(TRUE, FALSE, FALSE, 0, FALSE, TRUE)
      [] text = "-9223372036854775809" -> Reading(TRUE, TRUE, FALSE, 0, FALSE, FALSE)
      [] text = "18446744073709551616" -> Reading(TRUE, FALSE, FALSE, 0, FALSE, FALSE)
      [] OTHER -> NotANumber

\* the numbers a destination of the type holds
Representable(typ, n) ==
    IF typ.kind = "int" THEN 0 - 2^(typ.bits - 1) <= n /\ n <= 2^(typ.bits - 1) - 1
    ELSE 0 <= n /\ n <= 2^typ.bits - 1

\* the call failed with err and the slot holds what it held
FailedWith(err) == co.ret.err = err /\ co.ret.val = co.slot.val

\* the call stored n, or failed with ErrSetOverflow when the destination
\* cannot hold n
StoredOrOverflow(small, n) ==
    IF small /\ Representable(co.slot.typ, n)
    THEN co.ret.err = NoErr /\ co.ret.val = n
    ELSE FailedWith(ErrSetOverflow)

\* the input is an integer of the destination's signedness
SameSignedness ==
    co.to.t \in (IF co.slot.typ.kind = "int" THEN SignedTypes ELSE UnsignedTypes)

\* the text is a base-10 number as the destination's parser takes it: an
\* optional sign for a signed destination, digits only for an unsigned one
Parsable(r) == r.wf /\ (co.slot.typ.kind = "uint" => ~r.signed)

\* the number lies in the 64-bit range of the destination's signedness
In64(r) == IF co.slot.typ.kind = "int" THEN r.in64 ELSE r.inU64

\* C25 as stated: text that is a base-10 number and every integer input of
\* the destination's signedness is stored when the destination's width
\* holds it and fails with ErrSetOverflow otherwise; text that is no number
\* fails with ErrSetInvalidValue; any other input with ErrSetInvalidType;
\* a failed call leaves the destination as it was.
C25_IntegerRangeIsOverflow ==
    Coerced({"int", "uint"}) =>
       IF co.to.t = "string"
       THEN IF Parsable(Read(co.to.s))
            THEN StoredOrOverflow(Read(co.to.s).small, Read(co.to.s).v)
            ELSE FailedWith(ErrSetInvalidValue)
       ELSE IF SameSignedness THEN StoredOrOverflow(TRUE, co.to.i)
       ELSE FailedWith(ErrSetInvalidType)

\* C25 amended: text is parsed base-10 into 64 bits first, so text that is
\* no number or whose number lies outside int64 (signed destination) or
\* uint64 (unsigned destination) fails with ErrSetInvalidValue; a number
\* within 64 bits, from text or from an input of type int, int8 .. int64
\* (resp. uint, uint8 .. uint64), is stored when the destination's width
\* holds it and fails with ErrSetOverflow otherwise, never truncated; any
\* other input fails with ErrSetInvalidType; a failed call leaves the
\* destination as it was.
C25_IntegerCoercion ==
    Coerced({"int", "uint"}) =>
       IF co.to.t = "string"
       THEN IF Parsable(Read(co.to.s)) /\ In64(Read(co.to.s))
            THEN StoredOrOverflow(Read(co.to.s).small, Read(co.to.s).v)
            ELSE FailedWith(ErrSetInvalidValue)
       ELSE IF SameSignedness THEN StoredOrOverflow(TRUE, co.to.i)
       ELSE FailedWith(ErrSetInvalidType)

C25_Witness ==
    /\ Coerced({"int"})
    /\ co.slot.typ = TInt(8)
    /\ co.slot.val = 7
    /\ co.to = StrV("9223372036854775808")
    /\ co.ret.err = ErrSetInvalidValue
    /\ co.ret.val = 7

-----------------------------------------------------------------------------
(* Watch *)

\* C26: when Watch(p) has returned nil for a provider p with the
\* NotifyProvider capability, p is a known provider and a watch worker for
\* p's channel is running, whatever AutoWatch is.
C26_WatchStartsWatching ==
    (main.op = "Watch" /\ main.pc = "return" /\ main.ret = NoErr) =>
        \A i \in 1..Len(main.args) :
            main.args[i] \in scen.notify =>
               /\ providers[main.args[i]] # 0
               /\ main.args[i] \in watching
               /\ wk[main.args[i]].st = "run"

-----------------------------------------------------------------------------
(* Materialization *)

\* the step is a callback invocation of thread t
Invoked(t) == rnd'[t].calls = rnd[t].calls + 1

\* the path resolves to a Field above it that holds a map of maps, and
\* fewer than two segments follow that Field's path
NestedShort(path) ==
    LET g == get(fields, path)
    IN  /\ g.ok
        /\ ~equal(fields[g.key].path, path)
        /\ fields[g.key].typ.kind = "map"
        /\ fields[g.key].typ.elem.kind = "map"
        /\ Len(path) - Len(fields[g.key].path) < 2

\* C27: a write below a map of maps with fewer than two segments after the
\* registered ancestor's path fails with ErrInvalidPath; the pair is
\* aborted and nothing is written.
C27_NestedMapNeedsTwoSegments ==
    [][\A t \in Threads :
          (Invoked(t) /\ NestedShort(last'.path)) =>
             /\ last'.err = ErrInvalidPath
             /\ cfg' = cfg
             /\ rnd'[t].updates = rnd[t].updates]_vars

\* the text a map[string]string entry takes from an input
AsText(v) == IF v = IntV(5) THEN "5" ELSE v.s

\* the destination map of the Map Field the step resolved to, before and
\* after the step
MapBefore == ReadLoc(cfg, fields'[last'.key].loc)

MapAfter == ReadLoc(cfg', fields'[last'.key].loc)

\* C28: a write through a Map Field first coerces the input into the Map
\* Field's own slot and then assigns the slot's value at the index key of
\* the destination map; when the coercion fails the destination map is not
\* indexed.
C28_CoerceThenIndex ==
    [][\A t \in Threads :
          (Invoked(t) /\ last'.key \in DOMAIN fields' /\ fields'[last'.key].ismap) =>
             /\ last'.outcome = "accepted" =>
                   /\ fields'[last'.key].slot = AsText(last'.value)
                   /\ fields'[last'.key].idx \in DOMAIN MapAfter.m
                   /\ MapAfter.m[fields'[last'.key].idx] = fields'[last'.key].slot
             /\ last'.outcome = "seterr" => MapAfter.m = MapBefore.m]_vars

C28_Witness ==
    /\ last.outcome = "accepted"
    /\ last.key = "m.k"
    /\ last.value = IntV(5)
    /\ fields["m.k"].ismap
    /\ fields["m.k"].slot = "5"
    /\ cfg.M.m = [k \in {"k"} |-> "5"]

\* C29: the callback's loop ends for every pair after at most one
\* materialization: a materialization leaves a Map Field registered at
\* exactly the requested path, the retry resolves to it and goes on to the
\* write; a path that is registered already is not materialized again.
C29_AtMostOneMaterialization ==
    [][\A t \in Threads :
          Invoked(t) =>
             /\ last'.nmat <= 1
             /\ last'.nmat = 1 =>
                   /\ key(last'.path) \in DOMAIN fields'
                   /\ key(last'.path) \notin DOMAIN fields
                   /\ last'.key = key(last'.path)
                   /\ fields'[last'.key].ismap
                   /\ equal(fields'[last'.key].path, last'.path)
                   /\ last'.outcome \in {"accepted", "noop", "dropped", "seterr"}
             /\ key(last'.path) \in DOMAIN fields => last'.nmat = 0]_vars

C29_Witness ==
    /\ last.nmat = 1
    /\ last.outcome = "accepted"
    /\ last.path = <<"mm", "x", "y">>
    /\ fields["mm.x.y"].ismap
    /\ equal(fields["mm.x.y"].path, last.path)

-----------------------------------------------------------------------------
(* A round that fails *)

\* thread t is in a round whose last callback invocation returned an error
RoundFailed(t) ==
    /\ rnd[t].pc # "idle"
    /\ rnd[t].err # NoErr
    /\ last.err = rnd[t].err

\* what the destination holds where the Field points
Stored(fld) ==
    IF fld.ismap THEN ReadLoc(cfg, fld.loc).m[fld.idx] ELSE ReadLoc(cfg, fld.loc)

\* what a write of v leaves at the path: the int8 field takes the number,
\* the map entry the text
Expected(path, v) == IF path = <<"n">> THEN v.i ELSE AsText(v)

\* the accepted writes of the round are in the destination (for each path
\* the last of them) with the round's provider as owner
AppliedStay(r) ==
    \A i \in 1..Len(r.applied) :
        (\A j \in (i + 1)..Len(r.applied) : r.applied[j].Path # r.applied[i].Path) =>
            /\ Stored(fields[key(r.applied[i].Path)]) =
                   Expected(r.applied[i].Path, r.applied[i].New)
            /\ fields[key(r.applied[i].Path)].provider = r.provider

\* C30: a round stops at the first error of the callback: the pairs
\* accepted before it stay in the destination with their owner, and the
\* round makes no further callback invocation and writes nothing more.
C30_RoundStopsAtFirstError ==
    [][\A t \in Threads :
          RoundFailed(t) =>
             /\ AppliedStay(rnd[t])
             /\ rnd'[t].calls = rnd[t].calls \/ rnd'[t].pc = "idle"
             /\ cfg' = cfg
             /\ fields' = fields]_vars

C30_Witness ==
    /\ RoundFailed(MainThread)
    /\ rnd[MainThread].pc = "tail"
    /\ rnd[MainThread].calls = 2
    /\ Len(rnd[MainThread].applied) = 1
    /\ rnd[MainThread].applied[1].Path = <<"m", "k">>
    /\ last.path = <<"n">>
    /\ last.err = ErrSetInvalidValue
    /\ cfg.M.m = [k \in {"k"} |-> "5"]
    /\ cfg.N = 0

-----------------------------------------------------------------------------
(* FetchWithContext *)

\* FetchWithContext has just returned
AfterFetch == main.op = "fetch" /\ main.pc = "return"

\* the providers whose round this call ran
Ran == {main.ran[i].provider : i \in 1..Len(main.ran)}

-----------------------------------------------------------------------------
(* Providers with a fixed supply: the order of the range over f.providers *)

\* what a provider hands to the callback in each of its rounds
Pair(path, value) == [path |-> path, value |-> value]

\* one value for foo per provider: empty (the zero value of Foo), "a" or "b"
Supplies ==
    [{"p1", "p2"} -> {<<Pair(<<"foo">>, v)>> : v \in {StrV(""), StrV("a"), StrV("b")}}]

\* two providers whose Values is a fixed list of pairs (the inmemory
\* provider over a map that does not change)
ScenOrders(s) ==
    [providers |-> {"p1", "p2"}, notify |-> {}, subs |-> 1,
     paths     |-> { <<"foo">> },
     values    |-> {StrV(""), StrV("a"), StrV("b")},
     options   |-> {DefaultOptions},
     behaved   |-> {}, closers |-> {}, failing |-> {},
     panics    |-> {[kind |-> "error", v |-> "boom"]},
     supply    |-> s]

\* provider.Values hands its next pair to the callback
Supplied(t) ==
    /\ rnd[t].pc = "values"
    /\ rnd[t].calls < Len(scen.supply[rnd[t].provider])
    /\ Callback(t, scen.supply[rnd[t].provider][rnd[t].calls + 1].path,
                   scen.supply[rnd[t].provider][rnd[t].calls + 1].value)

\* provider.Values returns nil after its last pair
SuppliedAll(t) ==
    /\ rnd[t].pc = "values"
    /\ rnd[t].calls = Len(scen.supply[rnd[t].provider])
    /\ ValuesEnd(t, NoErr)

NextOrders ==
    \/ \E ps \in AddLists : DoAdd(ps)
    \/ Subscribe
    \/ \E ps \in FetchLists : FetchWithContext(ps)
    \/ FetchLoop
    \/ Supplied(MainThread)
    \/ SuppliedAll(MainThread)
    \/ Return
    \/ FetchTail(MainThread)
    \/ Deliver(MainThread)

InitOrders == \E s \in Supplies : InitWith(ScenOrders(s))

SpecOrders == InitOrders /\ [][NextOrders]_vars

\* registry and destination as a callback leaves them
Left(r) == [fields |-> r.fields, cfg |-> r.cfg]

\* the rounds of one FetchWithContext over the providers in the given order,
\* each provider handing over its pairs xs, from the state st on
RECURSIVE InOrder(_, _, _, _, _)
InOrder(st, tbl, opt, order, xs) ==
    IF Len(order) = 0 THEN st
    ELSE IF Len(xs) = 0
    THEN IF Len(order) = 1 THEN st
         ELSE InOrder(st, tbl, opt, Tail(order), scen.supply[order[2]])
    ELSE InOrder(Left(callback(st.fields, st.cfg, tbl, opt, order[1],
                               xs[1].path, xs[1].value)),
                 tbl, opt, order, Tail(xs))

\* the orders a range over the table can take
Orders(tbl) ==
    {o \in [1..Cardinality(Known(tbl)) -> Known(tbl)] :
        \A i, j \in DOMAIN o : i # j => o[i] # o[j]}

\* the state New left
Fresh == [fields |-> New(ValidDst, options).fields, cfg |-> ZeroValue(DestStruct)]

\* the first FetchWithContext of the run has returned nil
FirstFetched ==
    AfterFetch /\ main.ret = NoErr /\ nrounds = Len(main.ran)
       /\ Ran = Known(providers)

\* C32: for fixed providers, ranks and supplied values, the destination
\* after a successful FetchWithContext is the one every order of the range
\* over the known providers leads to.
C32_SameForEveryOrder ==
    FirstFetched =>
       \A o \in Orders(providers) :
          InOrder(Fresh, providers, options, o, scen.supply[o[1]]).cfg = cfg

\* this provider's round of the call in progress has ended without error
RoundDone(b) == \E i \in 1..Len(main.ran) :
                    main.ran[i].provider = b /\ main.ran[i].err = NoErr

\* C33: with priority enforcement on, once a provider has supplied a value
\* for a path in a completed round, the callback of a strictly lower-ranked
\* provider for the same path in a later round does not write, also when
\* the higher-ranked provider's value was the one already stored and its
\* write was a no-op.
C33_SuppliedValueIsProtected ==
    \A b \in Known(providers) :
       ( /\ Called
         /\ options.EnforcePriority
         /\ RoundDone(b)
         /\ \E j \in 1..Len(scen.supply[b]) : scen.supply[b][j].path = last.path
         /\ priority(providers, last.provider) > 0
         /\ priority(providers, last.provider) < priority(providers, b) )
       => last.outcome \in {"noop", "dropped"}

\* fetch is past provider.Values on thread t: what is left is the publish
\* of the batch and the return
PastValues(t) == rnd[t].pc \in {"tail", "publish"}

\* C35: on every exit path of fetch (Values returned nil or an error, the
\* context was cancelled, a panic was recovered) updatesCh is closed and the
\* collector goroutine has ended when fetch returns.
C35_CollectorEndsWithRound ==
    \A t \in Threads :
       PastValues(t) => rnd[t].updatesCh = "closed" /\ rnd[t].collector = "done"

\* thread t is past provider.Values in a round that accepted writes and
\* then failed
FailedAfterWrites(t) ==
    PastValues(t) /\ rnd[t].err # NoErr /\ Len(rnd[t].applied) > 0

\* the Notifications the subscribers have received for the round id
Heard(id) ==
    UNION {{inbox[s][i] : i \in {j \in 1..Len(inbox[s]) : inbox[s][j].round = id}} :
              s \in 1..Len(inbox)}

\* C36: a round that fails after it accepted writes leaves the destination
\* and the registry as the writes made them, and its Field Updates are not
\* published: the subscribers get nothing for a failed round of the
\* caller's thread, and for a failed round of a watch worker only the
\* Notification that carries the error.
C36_FailedRoundPublishesNoBatch ==
    /\ [](\A t \in Threads :
            FailedAfterWrites(t) =>
               /\ \A n \in Heard(rnd[t].id) :
                     t # MainThread /\ n.err = rnd[t].err /\ n.n = 0
               /\ rnd[t].pc = "publish" =>
                     t # MainThread /\ rnd[t].note = <<ErrorNote(rnd[t])>>)
    /\ [][\A t \in Threads :
            (FailedAfterWrites(t) /\ rnd'[t] # rnd[t]) =>
               cfg' = cfg /\ fields' = fields]_vars

C36_Witness ==
    /\ FailedAfterWrites(Worker("p1"))
    /\ rnd[Worker("p1")].pc = "publish"
    /\ rnd[Worker("p1")].pubIdx = 2
    /\ rnd[Worker("p1")].applied[1].New = StrV("a")
    /\ Heard(rnd[Worker("p1")].id) =
          {[round |-> rnd[Worker("p1")].id, err |-> ErrProvider, n |-> 0]}
    /\ cfg.Foo = "a"

-----------------------------------------------------------------------------
(* Rounds of different threads running the callback side by side *)

\* a watch worker for p2 next to the caller's thread: the callback of one
\* round can run between the priority check of another and its field.Set
ScenRaces ==
    [providers |-> {"p1", "p2"}, notify |-> {"p2"}, subs |-> 0,
     paths     |-> { <<"foo">> },
     values    |-> {StrV("a"), StrV("b")},
     options   |-> {DefaultOptions},
     behaved   |-> {}, closers |-> {}, failing |-> {},
     panics    |-> {[kind |-> "error", v |-> "boom"]}]

\* the callback up to field.Set, for one (path, value) pair: lookup, the
\* comparison with the current value and the priority rule; a pair that
\* passes them is about to be set, any other makes the callback return
Decide(t, path, value) ==
    /\ rnd[t].pc = "values"
    /\ rnd[t].calls < MaxPairs
    /\ mayProduce(rnd[t].provider, cancelled)
    /\ IF callback(fields, cfg, providers, options, rnd[t].provider, path,
                   value).outcome = "accepted"
       THEN /\ rnd' = [rnd EXCEPT ![t].pc = "set",
                          ![t].pending = <<[path |-> path, value |-> value,
                                            key |-> get(fields, path).key,
                                            current |-> Interface(
                                               Value(cfg, fields[get(fields, path).key]),
                                               fields[get(fields, path).key].typ)]>>]
            /\ UNCHANGED <<fields, cfg, accepted, last>>
       ELSE Returned(t, rnd[t].provider, path, value,
                     callback(fields, cfg, providers, options, rnd[t].provider,
                              path, value))
    /\ UNCHANGED <<cancelled, wk, shut, wlog, co, scen, options, providers, watching,
                   subscribers, inbox, main, signal, nrounds, since, addOrder>>

\* field.Set(value, provider) and the send of the FieldUpdate, on the
\* registry and the destination as they are by now
Apply(t) ==
    /\ rnd[t].pc = "set"
    /\ Returned(t, rnd[t].provider, rnd[t].pending[1].path, rnd[t].pending[1].value,
                afterSet(fields, rnd[t].provider, rnd[t].pending[1].path,
                         rnd[t].pending[1].value, rnd[t].pending[1].key,
                         fields[rnd[t].pending[1].key], rnd[t].pending[1].current,
                         Set(cfg, fields[rnd[t].pending[1].key],
                             rnd[t].pending[1].value, rnd[t].provider)))
    /\ UNCHANGED <<cancelled, wk, shut, wlog, co, scen, options, providers, watching,
                   subscribers, inbox, main, signal, nrounds, since, addOrder>>

\* the caller's thread and the watch workers, each callback in two steps
NextRaces ==
    \/ \E ps \in AddLists : DoAdd(ps)
    \/ \E ps \in FetchLists : FetchWithContext(ps)
    \/ FetchLoop
    \/ Return
    \/ \E p \in scen.notify : Notify(p)
    \/ \E p \in scen.notify : WatchReceive(p)
    \/ \E t \in Threads, path \in scen.paths, value \in scen.values :
           Decide(t, path, value)
    \/ \E t \in Threads : Apply(t)
    \/ \E t \in Threads : ValuesEnd(t, NoErr)
    \/ \E t \in Threads : FetchTail(t)

InitRaces == InitWith(ScenRaces)

SpecRaces == InitRaces /\ [][NextRaces]_vars

\* C34: whatever the interleaving of the rounds of the watch workers and
\* of the caller's thread, with priority enforcement on the writer of a
\* Field's value is never replaced by a provider of lower rank, and the
\* owner recorded on the Field is the writer of the value stored.
C34_PriorityHoldsUnderInterleaving ==
    /\ [](\A k \in DOMAIN fields : fields[k].provider = accepted[k])
    /\ [][\A k \in DOMAIN fields :
            (options.EnforcePriority /\ accepted[k] # Nil /\ accepted'[k] # accepted[k])
               => priority(providers, accepted'[k]) >= priority(providers, accepted[k])]_vars

-----------------------------------------------------------------------------
(* One provider fetched twice with the same supply *)

\* what the provider's map holds: text and integers for the int8 field,
\* text for the string field and for a map entry
RefetchPairs ==
    { Pair(<<"n">>, StrV("5")), Pair(<<"n">>, IntV(5)),
      Pair(<<"n">>, TypedInt("int8", 5)),
      Pair(<<"foo">>, StrV("a")), Pair(<<"m", "k">>, StrV("a")) }

\* one or two pairs, no path twice (the keys of a map)
RefetchSupplies ==
    {<<x>> : x \in RefetchPairs}
       \cup {<<x, y>> : x \in RefetchPairs,
                        y \in RefetchPairs}

ScenRefetch(xs) ==
    [providers |-> {"p1"}, notify |-> {}, subs |-> 1,
     paths     |-> { <<"n">>, <<"foo">>, <<"m", "k">> },
     values    |-> {StrV("5"), IntV(5), TypedInt("int8", 5), StrV("a")},
     options   |-> {DefaultOptions},
     behaved   |-> {}, closers |-> {}, failing |-> {},
     panics    |-> {[kind |-> "error", v |-> "boom"]},
     supply    |-> [p \in {"p1"} |-> xs]]

InitRefetch ==
    \E xs \in {s \in RefetchSupplies : Len(s) = 2 => s[1].path # s[2].path} :
        InitWith(ScenRefetch(xs))

SpecRefetch == InitRefetch /\ [][NextOrders]_vars

\* the caller's thread makes a callback invocation in the second round of
\* the run (the first round was the same provider's, with the same supply)
SecondTime ==
    /\ rnd[MainThread].id = 2
    /\ rnd[MainThread].pc = "values"
    /\ rnd'[MainThread].calls = rnd[MainThread].calls + 1

\* the supplied value has the Field's own type: nothing to coerce
OwnType(v, typ) == v.t = Interface(Zero(typ), typ).t

\* C39 as claimed: a second round with the same supply changes nothing and
\* collects no Field Update, whatever the supplied values.
C39_RefetchIsNoOp ==
    [][SecondTime =>
          /\ cfg' = cfg /\ fields' = fields
          /\ rnd'[MainThread].updates = <<>>]_vars

\* C39: a second round of the same provider with the same supply (each
\* path supplied once) leaves the destination and the registry as they
\* are; a value of the Field's own type is a no-op, a value that was
\* stored after coercion is set again and a Field Update is collected
\* for it.
C39_RefetchKeepsDestination ==
    [][SecondTime =>
          /\ cfg' = cfg /\ fields' = fields
          /\ last'.err = NoErr
          /\ IF OwnType(last'.value, fields[last'.key].typ)
             THEN /\ last'.outcome = "noop"
                  /\ rnd'[MainThread].updates = rnd[MainThread].updates
             ELSE /\ last'.outcome = "accepted"
                  /\ Len(rnd'[MainThread].updates) =
                        Len(rnd[MainThread].updates) + 1]_vars

C39_Witness ==
    /\ rnd[MainThread].id = 2
    /\ rnd[MainThread].pc = "tail"
    /\ rnd[MainThread].err = NoErr
    /\ scen.supply["p1"] = <<Pair(<<"n">>, StrV("5")), Pair(<<"foo">>, StrV("a"))>>
    /\ Len(rnd[MainThread].updates) = 1
    /\ rnd[MainThread].updates[1].New = StrV("5")
    /\ rnd[MainThread].updates[1].Old = TypedInt("int8", 5)
    /\ cfg.N = 5 /\ cfg.Foo = "a"

-----------------------------------------------------------------------------
(* Two watch workers publishing to two subscribers *)

ScenPublish ==
    [providers |-> {"p1", "p2"}, notify |-> {"p1", "p2"}, subs |-> 2,
     paths     |-> { <<"foo">> },
     values    |-> {StrV("a")},
     options   |-> {DefaultOptions},
     behaved   |-> {}, closers |-> {}, failing |-> {},
     panics    |-> {[kind |-> "error", v |-> "boom"]}]

\* the caller subscribes and starts the workers; the workers run rounds
NextPublish ==
    \/ Subscribe
    \/ \E ps \in FetchLists : DoWatch(ps)
    \/ Return
    \/ \E p \in scen.notify : Notify(p)
    \/ \E p \in scen.notify : WatchReceive(p)
    \/ \E p \in scen.notify, path \in scen.paths, value \in scen.values :
           Callback(Worker(p), path, value)
    \/ \E p \in scen.notify, e \in {NoErr, ErrProvider} : ValuesEnd(Worker(p), e)
    \/ \E p \in scen.notify : FetchTail(Worker(p))
    \/ \E p \in scen.notify : Deliver(Worker(p))

InitPublish == InitWith(ScenPublish)

SpecPublish == InitPublish /\ [][NextPublish]_vars

\* where subscriber s received the Notification of round id
PlaceOf(s, id) == CHOOSE j \in NotesOf(s, id) : TRUE

\* each subscriber has the Notification of a round at most once, and once
\* the round's publish has returned every subscriber that was there when
\* the round began has it
DeliveredOnce ==
    /\ \A s \in 1..subscribers : \A id \in 1..nrounds :
          Cardinality(NotesOf(s, id)) <= 1
    /\ \A i \in 1..Len(wlog) : \A s \in 1..subscribers :
          since[s] < wlog[i].round => Cardinality(NotesOf(s, wlog[i].round)) = 1

\* two subscribers that both have the Notifications of two rounds have
\* them in the same order
SameOrder ==
    \A s1, s2 \in 1..subscribers : \A i, j \in 1..nrounds :
       ( /\ NotesOf(s1, i) # {} /\ NotesOf(s1, j) # {}
         /\ NotesOf(s2, i) # {} /\ NotesOf(s2, j) # {} )
       => (PlaceOf(s1, i) < PlaceOf(s1, j) <=> PlaceOf(s2, i) < PlaceOf(s2, j))

-----------------------------------------------------------------------------
(* Cancellation and Close while a watch worker runs *)

\* one NotifyProvider with a Close that succeeds, one subscriber
ScenStop ==
    [providers |-> {"p1"}, notify |-> {"p1"}, subs |-> 1,
     paths     |-> { <<"foo">> },
     values    |-> {StrV("a")},
     options   |-> {DefaultOptions},
     behaved   |-> {}, closers |-> {"p1"}, failing |-> {},
     panics    |-> {[kind |-> "error", v |-> "boom"]}]

\* the caller subscribes, starts the worker, cancels and closes; the
\* worker runs rounds and publishes; the subscriber receives
NextStop ==
    \/ Subscribe
    \/ \E ps \in FetchLists : DoWatch(ps)
    \/ Return
    \/ Cancel
    \/ Notify("p1")
    \/ WatchReceive("p1")
    \/ WatchExit("p1")
    \/ \E path \in scen.paths, value \in scen.values :
           Callback(Worker("p1"), path, value)
    \/ ValuesEnd(Worker("p1"), NoErr)
    \/ FetchTail(Worker("p1"))
    \/ Deliver(Worker("p1"))
    \/ CloseStart
    \/ CloseWait

InitStop == InitWith(ScenStop)

\* the goroutines are scheduled: the worker takes the steps it can take
\* (a select whose ctx.Done() case stays ready takes it in the end), the
\* provider's Values returns, and Close and the calls of the caller's
\* thread go on when they can. A send of publish is over only when the
\* subscriber receives, which nothing in Fido makes it do; when the
\* caller cancels and whether the provider signals is theirs to choose.
FairStop ==
    /\ SF_vars(WatchExit("p1"))
    /\ WF_vars(WatchReceive("p1"))
    /\ WF_vars(ValuesEnd(Worker("p1"), NoErr))
    /\ WF_vars(FetchTail(Worker("p1")))
    /\ WF_vars(CloseWait)
    /\ WF_vars(Return)

SpecStop == InitStop /\ [][NextStop]_vars /\ FairStop

\* the worker of p starts a fetch round in this step
StartsRound(p) ==
    rnd[Worker(p)].pc = "idle" /\ rnd'[Worker(p)].pc # "idle"

\* C37: once the context is cancelled no watch worker starts a fetch
\* round any more, pending change signals or not, and every watch worker
\* that runs comes to its end.
C37_CancelStopsWorkers ==
    /\ [][cancelled => ~StartsRound("p1")]_vars
    /\ (cancelled ~> workersDone(wk))

\* Close is waiting for the workers and the context is cancelled or the
\* provider's change channel is closed
CloseWaiting ==
    main.pc = "closing" /\ (cancelled \/ wk["p1"].ch = "closed")

\* C40 as claimed: when every stop operation has succeeded and the
\* context is cancelled or the watched provider's channel is closed, Close
\* returns in the end, whether or not the subscribers still receive.
C40_CloseReturns == CloseWaiting ~> (shut.pc = "closed")

\* C40: when every stop operation has succeeded and the context is
\* cancelled or the watched provider's channel is closed, Close returns in
\* the end provided the subscribers receive what publish sends them; a
\* worker whose send is never received keeps Close waiting.
C40_CloseReturnsIfReceived ==
    WF_vars(Deliver(Worker("p1"))) => (CloseWaiting ~> (shut.pc = "closed"))

C40_Witness ==
    /\ CloseWaiting
    /\ rnd[Worker("p1")].pc = "publish"
    /\ wk["p1"].st = "run"
    /\ Len(inbox[1]) = 0

====
